---------------------------- MODULE Spec2Model ----------------------------
(***************************************************************************)
(* Packet classification engines of the cutsplit crate: Linear (the        *)
(* reference), CutSplit, HiCuts, HyperSplit, TSS/TupleMerge and            *)
(* PartitionSort, with the workload generator of simulation.rs.            *)
(*                                                                         *)
(* build and classify are pure functions of the rule list; they are        *)
(* operators here, and the actions apply them to rule lists that are       *)
(* either assembled rule by rule from a pool (Spec), produced by           *)
(* Simulation::generate_rules from a seed (SpecGen) or from free draws     *)
(* (SpecDraw), or chosen to reach the builders' depth limit (SpecDeep).    *)
(* SpecUtil calls the prefix decomposition and the masks on their own;     *)
(* SpecOrder runs TSS alone, under every iteration order of its hash map.  *)
(*                                                                         *)
(* Widths.  TLC integers are 32-bit signed, so u32 is modelled by an       *)
(* IpBits-wide unsigned type (addresses keep their top IpBits bits).       *)
(* Ports (u16) and the protocol (u8) keep their real widths.               *)
(***************************************************************************)
EXTENDS Integers, Sequences, FiniteSets, TLC

VARIABLES
    pc,          \* position of the driver: "seeded", "input", "tss", "ready",
                 \* "classified", "panic"; "util", "called" in SpecUtil
    rng,         \* Simulation.rng (state of the generator)
    hasher,      \* the hash maps' iteration order (hashbrown's hasher state)
    rules,       \* the rule list handed to build
    linear,      \* LinearClassifier.rules
    cutsplit,    \* CutSplitClassifier.root
    hicuts,      \* HiCutsClassifier.root
    hypersplit,  \* HyperSplitClassifier.root
    psort,       \* PartitionSortClassifier.trees
    tss,         \* TSSClassifier.tables
    tssPos,      \* TSS build loop position: <<rule index, expanded part index>>
    packet,      \* the packet last classified
    result,      \* engine -> what classify returned for packet
    call         \* the last call of a utility function: its arguments and result

vars == <<pc, rng, hasher, rules, linear, cutsplit, hicuts, hypersplit,
          psort, tss, tssPos, packet, result, call>>

(***************************************************************************)
(* Bounds of the model.                                                    *)
(***************************************************************************)
IpBits == 20        \* width of the model's u32
MaxRules == 3       \* Spec: longest rule list assembled from the pool
NRules == 10        \* SpecGen: n_rules handed to generate_rules
MaxSeed == 3        \* SpecGen: seeds 0..MaxSeed
MaxHasher == 1      \* iteration orders 0..MaxHasher of the hash maps
SrcSpan == 3        \* stands for 255 in gen_range(0..255), at the model's scale
DstSpan == 2        \* stands for the 100 of dst_ip + 100
WanSpan == 1        \* stands for the 50 of src_ip + 50

(***************************************************************************)
(* Program constants.                                                      *)
(***************************************************************************)
PortBits == 16
ProtoBits == 8
PROTO_TCP == 6
PROTO_UDP == 17
PROTO_IGMP == 2
CutSplitLeafThreshold == 10
CutSplitMaxDepth == 20
HiCutsLeafThreshold == 10
HiCutsMaxDepth == 20
HyperSplitLeafThreshold == 8
HyperSplitMaxDepth == 32
MAX_MERGE_BITS == 12

U32Max == 2^IpBits - 1
U16Max == 2^PortBits - 1
U8Max == 2^ProtoBits - 1

Min(a, b) == IF a < b THEN a ELSE b
Max(a, b) == IF a > b THEN a ELSE b

\* The k-th element (from 0) of a set of numbers sorted ascending:
\* points.sort_unstable(); points.dedup(); points[k].
NthSmallest(S, k) == CHOOSE x \in S : Cardinality({y \in S : y < x}) = k

\* u32::saturating_add(1)
SaturatingAdd1(v) == IF v >= U32Max THEN U32Max ELSE v + 1

(***************************************************************************)
(* rule.rs, packet.rs                                                      *)
(***************************************************************************)
Range(lo, hi) == [min |-> lo, max |-> hi]

Contains(range, val) == val >= range.min /\ val <= range.max

Matches(rule, tuple) ==
    /\ Contains(rule.src_ip, tuple.src_ip)
    /\ Contains(rule.dst_ip, tuple.dst_ip)
    /\ Contains(rule.src_port, tuple.src_port)
    /\ Contains(rule.dst_port, tuple.dst_port)
    /\ Contains(rule.proto, tuple.proto)

FiveTuple(si, di, sp, dp, pr) ==
    [src_ip |-> si, dst_ip |-> di, src_port |-> sp, dst_port |-> dp, proto |-> pr]

\* Option<Action>: "None", or the action of Some(action).
None == "None"
Permit == "Permit"
Deny == "Deny"

\* Mutant of FirstMatchScan: a scan that falls back to Deny when nothing matches.
FirstMatchScanDefaultDeny(rs, tuple) ==
    LET hits == {i \in 1..Len(rs) : Matches(rs[i], tuple)}
    IN IF hits = {} THEN Deny
       ELSE rs[CHOOSE i \in hits : \A j \in hits : i <= j].action

\* The first rule of a list that matches, as the leaf scans and Linear do:
\* for rule in rules { if rule.matches(packet) { return Some(rule.action) } } None
FirstMatchScan(rs, tuple) ==
    LET hits == {i \in 1..Len(rs) : Matches(rs[i], tuple)}
    IN IF hits = {} THEN None
       ELSE rs[CHOOSE i \in hits : \A j \in hits : i <= j].action

(***************************************************************************)
(* linear.rs                                                               *)
(***************************************************************************)
\* Mutant of SortByPriority: a sort that is not stable (equal priorities
\* come out in reverse input order).
RECURSIVE SortByPriorityUnstable(_)
SortByPriorityUnstable(rs) ==
    IF rs = <<>> THEN <<>>
    ELSE LET n == Len(rs)
             s == SortByPriorityUnstable(SubSeq(rs, 1, n - 1))
             x == rs[n]
         IN SelectSeq(s, LAMBDA r : r.priority < x.priority)
            \o <<x>>
            \o SelectSeq(s, LAMBDA r : r.priority >= x.priority)

\* sort_by_key(|r| r.priority): a stable sort.
RECURSIVE SortByPriority(_)
SortByPriority(rs) ==
    IF rs = <<>> THEN <<>>
    ELSE LET n == Len(rs)
             s == SortByPriority(SubSeq(rs, 1, n - 1))
             x == rs[n]
         IN SelectSeq(s, LAMBDA r : r.priority <= x.priority)
            \o <<x>>
            \o SelectSeq(s, LAMBDA r : r.priority > x.priority)

LinearBuild(rs) == SortByPriority(rs)

LinearClassify(sorted_rules, tuple) == FirstMatchScan(sorted_rules, tuple)

(***************************************************************************)
(* cutsplit/tree.rs, cutsplit/builder.rs, cutsplit/classifier.rs           *)
(***************************************************************************)
Leaf(rs) == [kind |-> "Leaf", rules |-> rs]

\* get_range: the rule's range in a dimension, widened to u32.
GetRange(rule, dim) ==
    CASE dim = "SrcIp" -> rule.src_ip
      [] dim = "DstIp" -> rule.dst_ip
      [] dim = "SrcPort" -> rule.src_port
      [] dim = "DstPort" -> rule.dst_port
      [] dim = "Proto" -> rule.proto

\* The packet's field for a dimension, widened to u32.
PacketField(tuple, dim) ==
    CASE dim = "SrcIp" -> tuple.src_ip
      [] dim = "DstIp" -> tuple.dst_ip
      [] dim = "SrcPort" -> tuple.src_port
      [] dim = "DstPort" -> tuple.dst_port
      [] dim = "Proto" -> tuple.proto

\* The endpoints {r.min, r.max.saturating_add(1)} of the rules in a dimension.
EndPoints(rs, dim) ==
    UNION {{GetRange(rs[i], dim).min, SaturatingAdd1(GetRange(rs[i], dim).max)}
           : i \in 1..Len(rs)}

CountSplit(rs, dim, val) ==
    [l |-> Cardinality({i \in 1..Len(rs) : GetRange(rs[i], dim).min < val}),
     r |-> Cardinality({i \in 1..Len(rs) : GetRange(rs[i], dim).max >= val})]

\* Mutant of PartitionRules: a rule that spans the cut goes right only.
PartitionRulesDisjoint(rs, dim, val) ==
    [left |-> SelectSeq(rs, LAMBDA r : GetRange(r, dim).max < val),
     right |-> SelectSeq(rs, LAMBDA r : GetRange(r, dim).max >= val)]

\* Mutant of PartitionRules: the rules that span the cut are put at the head
\* of the right list.
PartitionRulesSpanningFirst(rs, dim, val) ==
    [left |-> SelectSeq(rs, LAMBDA r : GetRange(r, dim).min < val),
     right |-> SelectSeq(rs, LAMBDA r : GetRange(r, dim).min < val /\ GetRange(r, dim).max >= val)
               \o SelectSeq(rs, LAMBDA r : GetRange(r, dim).min >= val /\ GetRange(r, dim).max >= val)]

PartitionRules(rs, dim, val) ==
    [left |-> SelectSeq(rs, LAMBDA r : GetRange(r, dim).min < val),
     right |-> SelectSeq(rs, LAMBDA r : GetRange(r, dim).max >= val)]

CutSplitDimensions == <<"SrcIp", "DstIp", "SrcPort", "DstPort">>

\* Mutant of FindBestCutStep: a later dimension of equal score replaces the
\* best cut so far.
FindBestCutStepLastWins(rs, dim, best) ==
    LET points == EndPoints(rs, dim)
        mid_idx == Cardinality(points) \div 2
        val == NthSmallest(points, mid_idx)
        c == CountSplit(rs, dim, val)
    IN IF ~(mid_idx > 0 /\ mid_idx < Cardinality(points)) THEN best
       ELSE IF c.l = Len(rs) /\ c.r = Len(rs) THEN best
       ELSE IF c.l = 0 \/ c.r = 0 THEN best
       ELSE IF ~best.found \/ c.l + c.r <= best.dup
            THEN [found |-> TRUE, dim |-> dim, val |-> val, dup |-> c.l + c.r]
            ELSE best

\* One round of find_best_cut's loop over the dimensions.  best.dup is l + r
\* of the best cut so far: score = 1.0 / ((l + r) / |rules|) is larger exactly
\* when l + r is smaller, and best_score = -1.0 is below every score.
FindBestCutStep(rs, dim, best) ==
    LET points == EndPoints(rs, dim)
        mid_idx == Cardinality(points) \div 2
        val == NthSmallest(points, mid_idx)
        c == CountSplit(rs, dim, val)
    IN IF ~(mid_idx > 0 /\ mid_idx < Cardinality(points)) THEN best
       ELSE IF c.l = Len(rs) /\ c.r = Len(rs) THEN best
       ELSE IF c.l = 0 \/ c.r = 0 THEN best
       ELSE IF ~best.found \/ c.l + c.r < best.dup
            THEN [found |-> TRUE, dim |-> dim, val |-> val, dup |-> c.l + c.r]
            ELSE best

RECURSIVE FindBestCutLoop(_, _, _)
FindBestCutLoop(rs, i, best) ==
    IF i > Len(CutSplitDimensions) THEN best
    ELSE FindBestCutLoop(rs, i + 1, FindBestCutStep(rs, CutSplitDimensions[i], best))

FindBestCut(rs) ==
    FindBestCutLoop(rs, 1, [found |-> FALSE, dim |-> "SrcIp", val |-> 0, dup |-> 0])

\* Mutant of CutSplitBuildRecursive: the depth limit is passed by one level.
RECURSIVE CutSplitBuildRecursiveDeeper(_, _)
CutSplitBuildRecursiveDeeper(rs, depth) ==
    IF Len(rs) <= CutSplitLeafThreshold \/ depth > CutSplitMaxDepth THEN Leaf(rs)
    ELSE LET cut == FindBestCut(rs)
             parts == PartitionRules(rs, cut.dim, cut.val)
         IN IF cut.found
            THEN [kind |-> "Internal", dimension |-> cut.dim, cut_val |-> cut.val,
                  left |-> CutSplitBuildRecursiveDeeper(parts.left, depth + 1),
                  right |-> CutSplitBuildRecursiveDeeper(parts.right, depth + 1)]
            ELSE Leaf(rs)

RECURSIVE CutSplitBuildRecursive(_, _)
CutSplitBuildRecursive(rs, depth) ==
    IF Len(rs) <= CutSplitLeafThreshold \/ depth >= CutSplitMaxDepth THEN Leaf(rs)
    ELSE LET cut == FindBestCut(rs)
             parts == PartitionRules(rs, cut.dim, cut.val)
         IN IF cut.found
            THEN [kind |-> "Internal", dimension |-> cut.dim, cut_val |-> cut.val,
                  left |-> CutSplitBuildRecursive(parts.left, depth + 1),
                  right |-> CutSplitBuildRecursive(parts.right, depth + 1)]
            ELSE Leaf(rs)

CutSplitBuild(rs) == CutSplitBuildRecursive(rs, 0)

RECURSIVE CutSplitClassify(_, _)
CutSplitClassify(node, tuple) ==
    IF node.kind = "Internal"
    THEN IF PacketField(tuple, node.dimension) < node.cut_val
         THEN CutSplitClassify(node.left, tuple)
         ELSE CutSplitClassify(node.right, tuple)
    ELSE FirstMatchScan(node.rules, tuple)

(***************************************************************************)
(* hicuts/tree.rs, hicuts/builder.rs, hicuts/classifier.rs                 *)
(***************************************************************************)
Dimensions == <<"SrcIp", "DstIp", "SrcPort", "DstPort", "Proto">>

\* The initial region of Builder::build: the full 5-tuple space.
HiCutsRootRanges ==
    [d \in {Dimensions[i] : i \in 1..5} |->
        CASE d = "SrcIp" -> Range(0, U32Max)
          [] d = "DstIp" -> Range(0, U32Max)
          [] d = "SrcPort" -> Range(0, 65535)
          [] d = "DstPort" -> Range(0, 65535)
          [] d = "Proto" -> Range(0, 255)]

\* Mutant of RuleOverlaps: a rule belongs to the bin that holds its minimum only.
RuleOverlapsMinOnly(rule, dim, min_val, max_val) ==
    GetRange(rule, dim).min <= max_val /\ GetRange(rule, dim).min >= min_val

\* rule.min <= region.max && rule.max >= region.min
RuleOverlaps(rule, dim, min_val, max_val) ==
    GetRange(rule, dim).min <= max_val /\ GetRange(rule, dim).max >= min_val

\* Mutant of BinMax: the upper end of a bin is the lower end of the next.
BinMaxInclusive(min_val, max_val, step, cuts, i) ==
    IF i = cuts - 1 THEN max_val ELSE min_val + (i + 1) * step

\* Bin i (from 0) of [min_val, max_val] cut into cuts strides.
BinMin(min_val, step, i) == min_val + i * step
BinMax(min_val, max_val, step, cuts, i) ==
    IF i = cuts - 1 THEN max_val ELSE min_val + (i + 1) * step - 1

HiCutsStep(min_val, max_val, cuts) == (max_val - min_val + 1) \div cuts

MaxRulesInBin(rs, dim, min_val, max_val, cuts) ==
    LET step == HiCutsStep(min_val, max_val, cuts)
        bin_count(i) ==
            Cardinality({k \in 1..Len(rs) :
                RuleOverlaps(rs[k], dim, BinMin(min_val, step, i),
                             BinMax(min_val, max_val, step, cuts, i))})
    IN CHOOSE m \in {bin_count(i) : i \in 0..(cuts - 1)} :
           \A i \in 0..(cuts - 1) : bin_count(i) <= m

CutCounts == <<2, 4, 8, 16>>

\* Mutant of SelectStep: the fullest bin is maximised, not minimised.
SelectStepFullest(rs, ranges, dim, cuts, best) ==
    LET min_val == ranges[dim].min
        max_val == ranges[dim].max
        max_rules_in_bin == MaxRulesInBin(rs, dim, min_val, max_val, cuts)
    IN IF min_val >= max_val THEN best
       ELSE IF max_val - min_val + 1 < cuts THEN best
       ELSE IF (~best.found \/ max_rules_in_bin > best.min_max_rules)
               /\ max_rules_in_bin < Len(rs)
            THEN [found |-> TRUE, dim |-> dim, cuts |-> cuts,
                  min_max_rules |-> max_rules_in_bin]
            ELSE best

\* One (dimension, cuts) round of select_dimension_and_cuts' two loops.
\* best.found = FALSE stands for min_max_rules = usize::MAX.
SelectStep(rs, ranges, dim, cuts, best) ==
    LET min_val == ranges[dim].min
        max_val == ranges[dim].max
        max_rules_in_bin == MaxRulesInBin(rs, dim, min_val, max_val, cuts)
    IN IF min_val >= max_val THEN best
       ELSE IF max_val - min_val + 1 < cuts THEN best
       ELSE IF (~best.found \/ max_rules_in_bin < best.min_max_rules)
               /\ max_rules_in_bin < Len(rs)
            THEN [found |-> TRUE, dim |-> dim, cuts |-> cuts,
                  min_max_rules |-> max_rules_in_bin]
            ELSE best

RECURSIVE SelectLoop(_, _, _, _)
SelectLoop(rs, ranges, k, best) ==
    IF k >= 5 * 4 THEN best
    ELSE SelectLoop(rs, ranges, k + 1,
                    SelectStep(rs, ranges, Dimensions[(k \div 4) + 1],
                               CutCounts[(k % 4) + 1], best))

\* Returns (best_dim, best_cut_count); (SrcIp, 1) when no cut makes progress.
SelectDimensionAndCuts(rs, ranges) ==
    SelectLoop(rs, ranges, 0,
               [found |-> FALSE, dim |-> "SrcIp", cuts |-> 1, min_max_rules |-> 0])

\* Mutant of HiCutsBuildRecursive: the node records the start of its last
\* bin, not that of its range.
RECURSIVE HiCutsBuildRecursiveLastStart(_, _, _)
HiCutsBuildRecursiveLastStart(rs, depth, ranges) ==
    IF Len(rs) <= HiCutsLeafThreshold \/ depth >= HiCutsMaxDepth THEN Leaf(rs)
    ELSE LET sel == SelectDimensionAndCuts(rs, ranges)
             dim == sel.dim
             num_cuts == sel.cuts
             min_val == ranges[dim].min
             max_val == ranges[dim].max
             step == HiCutsStep(min_val, max_val, num_cuts)
             child(i) ==
                 LET cut_min == BinMin(min_val, step, i)
                     cut_max == BinMax(min_val, max_val, step, num_cuts, i)
                 IN HiCutsBuildRecursiveLastStart(
                        SelectSeq(rs, LAMBDA r : RuleOverlaps(r, dim, cut_min, cut_max)),
                        depth + 1,
                        [ranges EXCEPT ![dim] = Range(cut_min, cut_max)])
         IN IF num_cuts <= 1 THEN Leaf(rs)
            ELSE [kind |-> "Internal", dimension |-> dim,
                  start |-> BinMin(min_val, step, num_cuts - 1),
                  step |-> step, num_cuts |-> num_cuts,
                  children |-> [i \in 1..num_cuts |-> child(i - 1)]]

RECURSIVE HiCutsBuildRecursive(_, _, _)
HiCutsBuildRecursive(rs, depth, ranges) ==
    IF Len(rs) <= HiCutsLeafThreshold \/ depth >= HiCutsMaxDepth THEN Leaf(rs)
    ELSE LET sel == SelectDimensionAndCuts(rs, ranges)
             dim == sel.dim
             num_cuts == sel.cuts
             min_val == ranges[dim].min
             max_val == ranges[dim].max
             step == HiCutsStep(min_val, max_val, num_cuts)
             child(i) ==
                 LET cut_min == BinMin(min_val, step, i)
                     cut_max == BinMax(min_val, max_val, step, num_cuts, i)
                 IN HiCutsBuildRecursive(
                        SelectSeq(rs, LAMBDA r : RuleOverlaps(r, dim, cut_min, cut_max)),
                        depth + 1,
                        [ranges EXCEPT ![dim] = Range(cut_min, cut_max)])
         IN IF num_cuts <= 1 THEN Leaf(rs)
            ELSE [kind |-> "Internal", dimension |-> dim, start |-> min_val,
                  step |-> step, num_cuts |-> num_cuts,
                  children |-> [i \in 1..num_cuts |-> child(i - 1)]]

HiCutsBuild(rs) == HiCutsBuildRecursive(rs, 0, HiCutsRootRanges)

RECURSIVE HiCutsClassify(_, _)
HiCutsClassify(node, tuple) ==
    IF node.kind = "Internal"
    THEN LET val == PacketField(tuple, node.dimension)
             index == Min((val - node.start) \div node.step, node.num_cuts - 1)
         IN IF val < node.start THEN None
            ELSE HiCutsClassify(node.children[index + 1], tuple)
    ELSE FirstMatchScan(node.rules, tuple)

(***************************************************************************)
(* hypersplit/tree.rs, hypersplit/builder.rs, hypersplit/classifier.rs     *)
(* (its get_range and count_split are, word for word, those of CutSplit)    *)
(***************************************************************************)
\* step = if points.len() > 16 { points.len() / 16 } else { 1 }
SampleStride(n) == IF n > 16 THEN n \div 16 ELSE 1

\* The loop over the sampled candidate pivots of one dimension:
\* for i in (0..points.len()).step_by(step).  best.score is ten times the
\* source's max(l, r) + 0.1 * (l + r); best.found = FALSE stands for f32::MAX.
RECURSIVE FindBestSplitPoints(_, _, _, _, _)
FindBestSplitPoints(rs, dim, points, i, best) ==
    IF i >= Cardinality(points) THEN best
    ELSE LET pivot == NthSmallest(points, i)
             c == CountSplit(rs, dim, pivot)
             score == 10 * Max(c.l, c.r) + (c.l + c.r)
             next == i + SampleStride(Cardinality(points))
         IN IF pivot = 0 THEN FindBestSplitPoints(rs, dim, points, next, best)
            ELSE IF c.l = 0 \/ c.r = 0
                 THEN FindBestSplitPoints(rs, dim, points, next, best)
            ELSE IF c.l = Len(rs) /\ c.r = Len(rs)
                 THEN FindBestSplitPoints(rs, dim, points, next, best)
            ELSE IF ~best.found \/ score < best.score
                 THEN FindBestSplitPoints(rs, dim, points, next,
                          [found |-> TRUE, dim |-> dim, pivot |-> pivot, score |-> score])
            ELSE FindBestSplitPoints(rs, dim, points, next, best)

RECURSIVE FindBestSplitLoop(_, _, _)
FindBestSplitLoop(rs, d, best) ==
    IF d > Len(Dimensions) THEN best
    ELSE FindBestSplitLoop(rs, d + 1,
             FindBestSplitPoints(rs, Dimensions[d], EndPoints(rs, Dimensions[d]), 0, best))

FindBestSplit(rs) ==
    FindBestSplitLoop(rs, 1, [found |-> FALSE, dim |-> "SrcIp", pivot |-> 0, score |-> 0])

\* Mutant of SplitRules: a rule that spans the pivot goes left only.
SplitRulesDisjoint(rs, dim, pivot) ==
    [left |-> SelectSeq(rs, LAMBDA r : GetRange(r, dim).min < pivot),
     right |-> SelectSeq(rs, LAMBDA r : GetRange(r, dim).min >= pivot)]

SplitRules(rs, dim, pivot) ==
    [left |-> SelectSeq(rs, LAMBDA r : GetRange(r, dim).min < pivot),
     right |-> SelectSeq(rs, LAMBDA r : GetRange(r, dim).max >= pivot)]

RECURSIVE HyperSplitBuildRecursive(_, _)
HyperSplitBuildRecursive(rs, depth) ==
    IF Len(rs) <= HyperSplitLeafThreshold \/ depth >= HyperSplitMaxDepth THEN Leaf(rs)
    ELSE LET split == FindBestSplit(rs)
             parts == SplitRules(rs, split.dim, split.pivot)
         IN IF ~split.found THEN Leaf(rs)
            ELSE IF Len(parts.left) = Len(rs) /\ Len(parts.right) = Len(rs) THEN Leaf(rs)
            ELSE [kind |-> "Internal", dimension |-> split.dim, pivot |-> split.pivot,
                  left |-> HyperSplitBuildRecursive(parts.left, depth + 1),
                  right |-> HyperSplitBuildRecursive(parts.right, depth + 1)]

HyperSplitBuild(rs) == HyperSplitBuildRecursive(rs, 0)

RECURSIVE HyperSplitClassify(_, _)
HyperSplitClassify(node, tuple) ==
    IF node.kind = "Internal"
    THEN IF PacketField(tuple, node.dimension) < node.pivot
         THEN HyperSplitClassify(node.left, tuple)
         ELSE HyperSplitClassify(node.right, tuple)
    ELSE FirstMatchScan(node.rules, tuple)

(***************************************************************************)
(* partitionsort/tree.rs, partitionsort/classifier.rs                      *)
(***************************************************************************)
\* field_idx: 0=SrcIP, 1=DstIP, 2=SrcPort, 3=DstPort, 4=Proto
TreeGetRange(rule, field_idx) == GetRange(rule, Dimensions[field_idx + 1])

NoNode == [kind |-> "NoNode"]

\* The sorted multiset of all endpoints, as a sequence:
\* endpoints.sort_unstable() over min and max of every rule.
SortedEndpoints(rs, field_idx) ==
    LET at(j) == IF j % 2 = 1 THEN TreeGetRange(rs[(j + 1) \div 2], field_idx).min
                 ELSE TreeGetRange(rs[j \div 2], field_idx).max
        n == 2 * Len(rs)
        \* position of entry j in the sorted order (ties by index)
        rank(j) == Cardinality({k \in 1..n : at(k) < at(j) \/ (at(k) = at(j) /\ k < j)})
    IN [p \in 1..n |-> at(CHOOSE j \in 1..n : rank(j) = p - 1)]

\* Mutant of TreeBuildRecursive: a rule that ends at the centre goes left.
RECURSIVE TreeBuildRecursiveLeftClosed(_, _)
TreeBuildRecursiveLeftClosed(rs, field_idx) ==
    IF rs = <<>> THEN [kind |-> "Node", center |-> 0, left |-> NoNode,
                       right |-> NoNode, rules |-> <<>>]
    ELSE LET endpoints == SortedEndpoints(rs, field_idx)
             center == endpoints[(Len(endpoints) \div 2) + 1]
             left_rules == SelectSeq(rs, LAMBDA r : TreeGetRange(r, field_idx).max <= center)
             right_rules == SelectSeq(rs, LAMBDA r :
                                ~(TreeGetRange(r, field_idx).max <= center)
                                /\ TreeGetRange(r, field_idx).min > center)
             center_rules == SelectSeq(rs, LAMBDA r :
                                ~(TreeGetRange(r, field_idx).max <= center)
                                /\ ~(TreeGetRange(r, field_idx).min > center))
             left == IF left_rules = <<>> THEN NoNode
                     ELSE TreeBuildRecursiveLeftClosed(left_rules, field_idx)
             right == IF right_rules = <<>> THEN NoNode
                      ELSE TreeBuildRecursiveLeftClosed(right_rules, field_idx)
         IN IF Len(left_rules) = Len(rs) \/ Len(right_rules) = Len(rs)
            THEN [kind |-> "Overflow"]
            ELSE IF left.kind = "Overflow" \/ right.kind = "Overflow"
            THEN [kind |-> "Overflow"]
            ELSE [kind |-> "Node", center |-> center, left |-> left,
                  right |-> right, rules |-> center_rules]

\* Mutant of TreeBuildRecursive: a rule that starts at the centre goes right.
RECURSIVE TreeBuildRecursiveRightClosed(_, _)
TreeBuildRecursiveRightClosed(rs, field_idx) ==
    IF rs = <<>> THEN [kind |-> "Node", center |-> 0, left |-> NoNode,
                       right |-> NoNode, rules |-> <<>>]
    ELSE LET endpoints == SortedEndpoints(rs, field_idx)
             center == endpoints[(Len(endpoints) \div 2) + 1]
             left_rules == SelectSeq(rs, LAMBDA r : TreeGetRange(r, field_idx).max < center)
             right_rules == SelectSeq(rs, LAMBDA r :
                                ~(TreeGetRange(r, field_idx).max < center)
                                /\ TreeGetRange(r, field_idx).min >= center)
             center_rules == SelectSeq(rs, LAMBDA r :
                                ~(TreeGetRange(r, field_idx).max < center)
                                /\ ~(TreeGetRange(r, field_idx).min >= center))
             left == IF left_rules = <<>> THEN NoNode
                     ELSE TreeBuildRecursiveRightClosed(left_rules, field_idx)
             right == IF right_rules = <<>> THEN NoNode
                      ELSE TreeBuildRecursiveRightClosed(right_rules, field_idx)
         IN IF Len(left_rules) = Len(rs) \/ Len(right_rules) = Len(rs)
            THEN [kind |-> "Overflow"]
            ELSE IF left.kind = "Overflow" \/ right.kind = "Overflow"
            THEN [kind |-> "Overflow"]
            ELSE [kind |-> "Node", center |-> center, left |-> left,
                  right |-> right, rules |-> center_rules]

\* A call that hands a child the very list it was given never returns: the
\* recursion repeats itself until the stack overflows.  "Overflow" marks it.
RECURSIVE TreeBuildRecursive(_, _)
TreeBuildRecursive(rs, field_idx) ==
    IF rs = <<>> THEN [kind |-> "Node", center |-> 0, left |-> NoNode,
                       right |-> NoNode, rules |-> <<>>]
    ELSE LET endpoints == SortedEndpoints(rs, field_idx)
             center == endpoints[(Len(endpoints) \div 2) + 1]
             left_rules == SelectSeq(rs, LAMBDA r : TreeGetRange(r, field_idx).max < center)
             right_rules == SelectSeq(rs, LAMBDA r :
                                ~(TreeGetRange(r, field_idx).max < center)
                                /\ TreeGetRange(r, field_idx).min > center)
             center_rules == SelectSeq(rs, LAMBDA r :
                                ~(TreeGetRange(r, field_idx).max < center)
                                /\ ~(TreeGetRange(r, field_idx).min > center))
             left == IF left_rules = <<>> THEN NoNode
                     ELSE TreeBuildRecursive(left_rules, field_idx)
             right == IF right_rules = <<>> THEN NoNode
                      ELSE TreeBuildRecursive(right_rules, field_idx)
         IN IF Len(left_rules) = Len(rs) \/ Len(right_rules) = Len(rs)
            THEN [kind |-> "Overflow"]
            ELSE IF left.kind = "Overflow" \/ right.kind = "Overflow"
            THEN [kind |-> "Overflow"]
            ELSE [kind |-> "Node", center |-> center, left |-> left,
                  right |-> right, rules |-> center_rules]

IntervalTreeBuild(rs, field_idx) ==
    [root |-> TreeBuildRecursive(rs, field_idx), field_idx |-> field_idx]

\* Mutant of MergeMatch: the node's own match wins whenever there is one.
MergeMatchNodeFirst(b, c) == IF b = [id |-> -1] THEN c ELSE b

\* The better of two Option<&Rule>, NoRule standing for None; on equal
\* priority the second wins: if b.priority < c.priority { b } else { c }.
NoRule == [id |-> -1]

MergeMatch(b, c) ==
    IF b = NoRule THEN c
    ELSE IF c = NoRule THEN b
    ELSE IF b.priority < c.priority THEN b ELSE c

\* The scan of a node's list: the first rule of lowest priority that matches.
RECURSIVE ScanNode(_, _, _, _)
ScanNode(rs, i, tuple, best_match) ==
    IF i > Len(rs) THEN best_match
    ELSE ScanNode(rs, i + 1, tuple,
             IF Matches(rs[i], tuple)
                /\ (best_match = NoRule \/ rs[i].priority < best_match.priority)
             THEN rs[i] ELSE best_match)

\* Mutant of QueryRecursivePacket: the children are taken the wrong way round.
RECURSIVE QueryRecursivePacketSwapped(_, _, _)
QueryRecursivePacketSwapped(node, tuple, val) ==
    LET best_match == ScanNode(node.rules, 1, tuple, NoRule)
        child_match ==
            IF val > node.center
            THEN IF node.left = NoNode THEN NoRule
                 ELSE QueryRecursivePacketSwapped(node.left, tuple, val)
            ELSE IF val < node.center
            THEN IF node.right = NoNode THEN NoRule
                 ELSE QueryRecursivePacketSwapped(node.right, tuple, val)
            ELSE NoRule
    IN MergeMatch(best_match, child_match)

RECURSIVE QueryRecursivePacket(_, _, _)
QueryRecursivePacket(node, tuple, val) ==
    LET best_match == ScanNode(node.rules, 1, tuple, NoRule)
        child_match ==
            IF val < node.center
            THEN IF node.left = NoNode THEN NoRule
                 ELSE QueryRecursivePacket(node.left, tuple, val)
            ELSE IF val > node.center
            THEN IF node.right = NoNode THEN NoRule
                 ELSE QueryRecursivePacket(node.right, tuple, val)
            ELSE NoRule
    IN MergeMatch(best_match, child_match)

ClassifyPacket(tree, tuple, val) == QueryRecursivePacket(tree.root, tuple, val)

RECURSIVE MaxBucketRecursive(_)
MaxBucketRecursive(node) ==
    Max(Max(Len(node.rules),
            IF node.left = NoNode THEN 0 ELSE MaxBucketRecursive(node.left)),
        IF node.right = NoNode THEN 0 ELSE MaxBucketRecursive(node.right))

EvaluateDimension(rs, dim) == MaxBucketRecursive(IntervalTreeBuild(rs, dim).root)

\* for dim in 0..5 { if score < min_max_bucket { ... best_dim = dim } }
RECURSIVE BestDimLoop(_, _, _, _)
BestDimLoop(rs, dim, best_dim, min_max_bucket) ==
    IF dim >= 5 THEN best_dim
    ELSE LET score == EvaluateDimension(rs, dim)
         IN IF min_max_bucket < 0 \/ score < min_max_bucket
            THEN BestDimLoop(rs, dim + 1, dim, score)
            ELSE BestDimLoop(rs, dim + 1, best_dim, min_max_bucket)

\* Whether some tree that build constructs (one per dimension, to score it)
\* recurses without end.
PartitionSortOverflows(rs) ==
    \E dim \in 0..4 : IntervalTreeBuild(rs, dim).root.kind = "Overflow"

\* PartitionSortClassifier.trees; "Overflow" when build never returns.
PartitionSortBuild(rs) ==
    IF rs = <<>> THEN <<>>
    ELSE IF PartitionSortOverflows(rs) THEN "Overflow"
    ELSE <<IntervalTreeBuild(rs, BestDimLoop(rs, 0, 0, -1))>>

\* for tree in &self.trees { ... if rule.priority < best.priority { best = rule } }
RECURSIVE PartitionSortLoop(_, _, _, _)
PartitionSortLoop(trees, i, tuple, best_match) ==
    IF i > Len(trees) THEN best_match
    ELSE LET tree == trees[i]
             val == PacketField(tuple, Dimensions[tree.field_idx + 1])
             rule == ClassifyPacket(tree, tuple, val)
         IN PartitionSortLoop(trees, i + 1, tuple,
                IF rule # NoRule
                   /\ (best_match = NoRule \/ rule.priority < best_match.priority)
                THEN rule ELSE best_match)

PartitionSortClassify(trees, tuple) ==
    LET best_match == PartitionSortLoop(trees, 1, tuple, NoRule)
    IN IF best_match = NoRule THEN None ELSE best_match.action

(***************************************************************************)
(* tss/utils.rs                                                            *)
(***************************************************************************)
Prefix(v, l) == [value |-> v, len |-> l]

\* u32::trailing_zeros, on the model's u32
RECURSIVE TrailingZeros(_)
TrailingZeros(v) ==
    IF v = 0 THEN IpBits
    ELSE IF v % 2 = 1 THEN 0
    ELSE 1 + TrailingZeros(v \div 2)

\* Mutant of BestLen: the alignment alone decides, max is not looked at.
BestLenAligned(current, max, bits, l) == l

\* Mutant of BestLen: always a single address.
BestLenSingle(current, max, bits, l) == bits

\* for l in alignment_len..=bits { if current + size - 1 <= max { best_len = l; break } }
RECURSIVE BestLen(_, _, _, _)
BestLen(current, max, bits, l) ==
    IF l > bits THEN bits
    ELSE IF current + 2^(bits - l) - 1 <= max THEN l
    ELSE BestLen(current, max, bits, l + 1)

RECURSIVE RangeToPrefixesLoop(_, _, _, _)
RangeToPrefixesLoop(current, max, bits, prefixes) ==
    IF ~(current <= max) THEN prefixes
    ELSE LET trailing_zeros == TrailingZeros(current)
             alignment_len == IF trailing_zeros >= bits THEN 0 ELSE bits - trailing_zeros
             best_len == BestLen(current, max, bits, alignment_len)
             next == current + 2^(bits - best_len)
             pushed == Append(prefixes, Prefix(current, best_len))
         IN IF next > max THEN pushed
            ELSE RangeToPrefixesLoop(next, max, bits, pushed)

RangeToPrefixesU32(min, max, bits) ==
    IF min > max THEN <<>> ELSE RangeToPrefixesLoop(min, max, bits, <<>>)

\* p32.into_iter().map(|p| Prefix { value: p.value as uN, len: p.len })
CastPrefixes(p32, width) ==
    [i \in DOMAIN p32 |-> Prefix(p32[i].value % 2^width, p32[i].len)]

RangeToPrefixesU16(min, max) == CastPrefixes(RangeToPrefixesU32(min, max, 16), 16)

RangeToPrefixesU8(min, max) == CastPrefixes(RangeToPrefixesU32(min, max, 8), 8)

(***************************************************************************)
(* tss/classifier.rs                                                       *)
(***************************************************************************)
Tuple(sl, dl, spl, dpl, pl) ==
    [src_ip_len |-> sl, dst_ip_len |-> dl, src_port_len |-> spl,
     dst_port_len |-> dpl, proto_len |-> pl]

\* self.is_subset_of(other)
IsSubsetOf(self, other) ==
    /\ self.src_ip_len <= other.src_ip_len
    /\ self.dst_ip_len <= other.dst_ip_len
    /\ self.src_port_len <= other.src_port_len
    /\ self.dst_port_len <= other.dst_port_len
    /\ self.proto_len <= other.proto_len

\* self.bit_difference(other)
BitDifference(self, other) ==
    (other.src_ip_len - self.src_ip_len)
    + (other.dst_ip_len - self.dst_ip_len)
    + (other.src_port_len - self.src_port_len)
    + (other.dst_port_len - self.dst_port_len)
    + (other.proto_len - self.proto_len)

\* val & (!0 << (bits - len)), with the len = 0 and len >= bits cases
\* Mutant of Mask: the low bits - len bits are kept and the top ones zeroed.
MaskLowBits(val, len, bits) ==
    IF len = 0 THEN 0
    ELSE IF len >= bits THEN val
    ELSE val % 2^(bits - len)

Mask(val, len, bits) ==
    IF len = 0 THEN 0
    ELSE IF len >= bits THEN val
    ELSE (val \div 2^(bits - len)) * 2^(bits - len)

MaskU32(val, len) == Mask(val, len, IpBits)
MaskU16(val, len) == Mask(val, len, 16)
MaskU8(val, len) == Mask(val, len, 8)

\* TupleKey::from_values; TupleKey::new(packet, tuple) is this on the packet's fields
TupleKeyFromValues(si, di, sp, dp, pr, tuple) ==
    [src_ip |-> MaskU32(si, tuple.src_ip_len),
     dst_ip |-> MaskU32(di, tuple.dst_ip_len),
     src_port |-> MaskU16(sp, tuple.src_port_len),
     dst_port |-> MaskU16(dp, tuple.dst_port_len),
     proto |-> MaskU8(pr, tuple.proto_len)]

TupleKeyNew(pkt, tuple) ==
    TupleKeyFromValues(pkt.src_ip, pkt.dst_ip, pkt.src_port, pkt.dst_port,
                       pkt.proto, tuple)

\* expand_rule: the Cartesian product of the five prefix lists, the source
\* prefixes in the outermost loop and the protocol prefixes in the innermost.
ExpandRule(rule) ==
    LET src_prefixes == RangeToPrefixesU32(rule.src_ip.min, rule.src_ip.max, IpBits)
        dst_prefixes == RangeToPrefixesU32(rule.dst_ip.min, rule.dst_ip.max, IpBits)
        sp_prefixes == RangeToPrefixesU16(rule.src_port.min, rule.src_port.max)
        dp_prefixes == RangeToPrefixesU16(rule.dst_port.min, rule.dst_port.max)
        proto_prefixes == RangeToPrefixesU8(rule.proto.min, rule.proto.max)
        n5 == Len(proto_prefixes)
        n4 == Len(dp_prefixes) * n5
        n3 == Len(sp_prefixes) * n4
        n2 == Len(dst_prefixes) * n3
        n1 == Len(src_prefixes) * n2
        part(k) ==
            LET s == src_prefixes[(k \div n2) + 1]
                d == dst_prefixes[((k % n2) \div n3) + 1]
                sp == sp_prefixes[((k % n3) \div n4) + 1]
                dp == dp_prefixes[((k % n4) \div n5) + 1]
                pr == proto_prefixes[(k % n5) + 1]
            IN [tuple |-> Tuple(s.len, d.len, sp.len, dp.len, pr.len),
                sip |-> s.value, dip |-> d.value, sport |-> sp.value,
                dport |-> dp.value, proto |-> pr.value]
    IN [k \in 1..n1 |-> part(k - 1)]

\* The iteration order of a HashMap is whatever its hasher makes it.  Order h
\* ranks the tables' tuples: 0 ascending, 1 descending, others scrambled.
TupleCode(t) ==
    (((t.src_ip_len * 33 + t.dst_ip_len) * 33 + t.src_port_len) * 33
      + t.dst_port_len) * 33 + t.proto_len

TupleHash(t, h) ==
    CASE h = 0 -> TupleCode(t)
      [] h = 1 -> 0 - TupleCode(t)
      [] OTHER -> ((TupleCode(t) % 10007) * (2 * h + 29)) % 10007

TupleBefore(t, u, h) ==
    \/ TupleHash(t, h) < TupleHash(u, h)
    \/ TupleHash(t, h) = TupleHash(u, h) /\ TupleCode(t) < TupleCode(u)

\* A set of tables' tuples as the sequence in which the map iterates them.
InOrder(ks, h) ==
    [p \in 1..Cardinality(ks) |->
        CHOOSE t \in ks : Cardinality({u \in ks : TupleBefore(u, t, h)}) = p - 1]

\* The merge target of build.  The loop over tables.keys() keeps the first
\* table, in iteration order, of least difference among those that are
\* subsets of rule_tuple within MAX_MERGE_BITS (diff < min_diff is strict);
\* the tables that are no such subset leave best_table_tuple as it is.
RECURSIVE BestTableLoop(_, _, _, _, _)
BestTableLoop(keys, i, rule_tuple, best_table_tuple, min_diff) ==
    IF i > Len(keys) THEN best_table_tuple
    ELSE IF (min_diff < 0 \/ BitDifference(keys[i], rule_tuple) < min_diff)
            /\ BitDifference(keys[i], rule_tuple) <= MAX_MERGE_BITS
         THEN BestTableLoop(keys, i + 1, rule_tuple, keys[i],
                            BitDifference(keys[i], rule_tuple))
    ELSE BestTableLoop(keys, i + 1, rule_tuple, best_table_tuple, min_diff)

TargetTuple(tables, rule_tuple, h) ==
    BestTableLoop(InOrder({t \in DOMAIN tables : IsSubsetOf(t, rule_tuple)}, h),
                  1, rule_tuple, rule_tuple, -1)

\* Mutant of TSSInsert: the key is masked by the rule's own tuple, not by the
\* tuple of the table the rule is merged into.
TSSInsertRuleTupleKey(tables, rule, part, h) ==
    LET target_tuple == TargetTuple(tables, part.tuple, h)
        table == IF target_tuple \in DOMAIN tables THEN tables[target_tuple] ELSE << >>
        key == TupleKeyFromValues(part.sip, part.dip, part.sport, part.dport,
                                  part.proto, part.tuple)
        bucket == IF key \in DOMAIN table THEN table[key] ELSE <<>>
        sorted == SortByPriority(Append(bucket, rule))
        newTable == [k \in DOMAIN table \cup {key} |-> IF k = key THEN sorted ELSE table[k]]
    IN [t \in DOMAIN tables \cup {target_tuple} |->
           IF t = target_tuple THEN newTable ELSE tables[t]]

\* The body of build's inner loop for one expanded part of a rule.
TSSInsert(tables, rule, part, h) ==
    LET target_tuple == TargetTuple(tables, part.tuple, h)
        table == IF target_tuple \in DOMAIN tables THEN tables[target_tuple] ELSE << >>
        key == TupleKeyFromValues(part.sip, part.dip, part.sport, part.dport,
                                  part.proto, target_tuple)
        bucket == IF key \in DOMAIN table THEN table[key] ELSE <<>>
        sorted == SortByPriority(Append(bucket, rule))
        newTable == [k \in DOMAIN table \cup {key} |-> IF k = key THEN sorted ELSE table[k]]
    IN [t \in DOMAIN tables \cup {target_tuple} |->
           IF t = target_tuple THEN newTable ELSE tables[t]]

\* The scan of one bucket in classify.
RECURSIVE ScanBucket(_, _, _, _)
ScanBucket(bucket, i, pkt, best_match) ==
    IF i > Len(bucket) THEN best_match
    ELSE IF best_match # NoRule /\ bucket[i].priority >= best_match.priority
         THEN best_match
    ELSE IF Matches(bucket[i], pkt)
         THEN IF best_match = NoRule \/ bucket[i].priority < best_match.priority
              THEN bucket[i] ELSE best_match
    ELSE ScanBucket(bucket, i + 1, pkt, best_match)

\* Mutant of TSSClassifyLoop: the loop ends at the first table that gives a
\* match.
RECURSIVE TSSClassifyLoopFirstHit(_, _, _, _, _)
TSSClassifyLoopFirstHit(tables, keys, i, pkt, best_match) ==
    IF i > Len(keys) \/ best_match # NoRule THEN best_match
    ELSE TSSClassifyLoopFirstHit(tables, keys, i + 1, pkt,
             ScanBucket(tables[keys[i]][TupleKeyNew(pkt, keys[i])], 1, pkt, best_match))

\* for (tuple, table) in &self.tables, in iteration order.  A table that
\* has no bucket at the packet's key leaves best_match as it is, so the loop
\* is over the tables that have one.
RECURSIVE TSSClassifyLoop(_, _, _, _, _)
TSSClassifyLoop(tables, keys, i, pkt, best_match) ==
    IF i > Len(keys) THEN best_match
    ELSE TSSClassifyLoop(tables, keys, i + 1, pkt,
             ScanBucket(tables[keys[i]][TupleKeyNew(pkt, keys[i])], 1, pkt, best_match))

TSSClassify(tables, pkt, h) ==
    LET probed == {t \in DOMAIN tables : TupleKeyNew(pkt, t) \in DOMAIN tables[t]}
        best_match == TSSClassifyLoop(tables, InOrder(probed, h), 1, pkt, NoRule)
    IN IF best_match = NoRule THEN None ELSE best_match.action

(***************************************************************************)
(* simulation.rs                                                           *)
(*                                                                         *)
(* Pcg32 is a crate of its own; what the generator needs of it is a        *)
(* deterministic stream of draws from a seed.  A 16-bit linear             *)
(* congruential generator stands for it, each draw taking its 10 top bits. *)
(***************************************************************************)
RngNext(s) == (s * 25173 + 13849) % 65536
RngBits(s) == s \div 64

\* Each draw returns the value drawn and the generator's next state.
\* rng.gen_range(lo..hi)
GenRange(s, lo, hi) == [v |-> lo + (RngBits(RngNext(s)) % (hi - lo)), rng |-> RngNext(s)]
\* rng.gen_bool(0.8)
GenBool08(s) == [v |-> (RngBits(RngNext(s)) % 10) < 8, rng |-> RngNext(s)]
\* rng.gen::<bool>()
GenBool(s) == [v |-> (RngBits(RngNext(s)) % 2) = 1, rng |-> RngNext(s)]
\* rng.gen::<u32>()
GenU32(s) ==
    LET s1 == RngNext(s)
        s2 == RngNext(s1)
        s3 == RngNext(s2)
    IN [v |-> ((RngBits(s1) * 1024 + RngBits(s2)) * 1024 + RngBits(s3)) % 2^IpBits,
        rng |-> s3]

\* u32 addition: it wraps in a release build
WrappingAdd(a, b) == (a + b) % 2^IpBits

\* 0xC0A80000 (192.168.0.0) and the multicast range 0xE0000000..0xEFFFFFFF,
\* cut to their top IpBits bits
LanBase == 49320 * 2^(IpBits - 16)
MulticastMin == 14 * 2^(IpBits - 4)
MulticastMax == 15 * 2^(IpBits - 4) - 1

Rule(id, priority, src_ip, dst_ip, src_port, dst_port, proto, action) ==
    [id |-> id, priority |-> priority, src_ip |-> src_ip, dst_ip |-> dst_ip,
     src_port |-> src_port, dst_port |-> dst_port, proto |-> proto, action |-> action]

\* match self.rng.gen_range(0..4) { 0 => 80, 1 => 443, 2 => 53, _ => 8080 }
ServicePort(d) == CASE d = 0 -> 80 [] d = 1 -> 443 [] d = 2 -> 53 [] OTHER -> 8080

GenServicePort(s) ==
    LET d == GenRange(s, 0, 4)
    IN [v |-> ServicePort(d.v), rng |-> d.rng]

\* The rule that gen_lan_to_wan_rule makes of its draws, the additions
\* wrapping, and whether one of its additions exceeds u32::MAX.
LanToWanRule(src_ip_mask, suffix, span, dst_ip, port, tcp, id, action) ==
    LET src_ip_suffix == suffix % 2^(IpBits - src_ip_mask)
        src_start == LanBase + src_ip_suffix
        src_end == WrappingAdd(src_start, span)
    IN Rule(id, id, Range(src_start, src_end),
            Range(dst_ip, WrappingAdd(dst_ip, DstSpan)),
            Range(1024, 65535), Range(port, port),
            IF tcp THEN Range(PROTO_TCP, PROTO_TCP) ELSE Range(PROTO_UDP, PROTO_UDP),
            action)

LanToWanOverflows(src_ip_mask, suffix, span, dst_ip) ==
    \/ LanBase + (suffix % 2^(IpBits - src_ip_mask)) + span > U32Max
    \/ dst_ip + DstSpan > U32Max

GenLanToWanRule(s, id, action) ==
    LET src_ip_mask == GenRange(s, 16, IpBits)
        suffix == GenU32(src_ip_mask.rng)
        span == GenRange(suffix.rng, 0, SrcSpan)
        dst_ip == GenU32(span.rng)
        port == GenServicePort(dst_ip.rng)
        tcp == GenBool(port.rng)
    IN [rule |-> LanToWanRule(src_ip_mask.v, suffix.v, span.v, dst_ip.v,
                              port.v, tcp.v, id, action),
        rng |-> tcp.rng]

\* The rule that gen_wan_to_lan_rule makes of its draws, and whether its
\* addition exceeds u32::MAX.
WanToLanRule(src_ip, low, id, action) ==
    LET dst_addr == LanBase + (low % 2^(IpBits - 16))
    IN Rule(id, id, Range(src_ip, WrappingAdd(src_ip, WanSpan)),
            Range(dst_addr, dst_addr), Range(0, 65535), Range(80, 80),
            Range(PROTO_TCP, PROTO_TCP), action)

WanToLanOverflows(src_ip) == src_ip + WanSpan > U32Max

GenWanToLanRule(s, id, action) ==
    LET src_ip == GenU32(s)
        low == GenU32(src_ip.rng)
    IN [rule |-> WanToLanRule(src_ip.v, low.v, id, action), rng |-> low.rng]

GenIgmpRule(s, id, action) ==
    [rule |-> Rule(id, id, Range(0, U32Max), Range(MulticastMin, MulticastMax),
                   Range(0, 65535), Range(0, 65535),
                   Range(PROTO_IGMP, PROTO_IGMP), action),
     rng |-> s]

CatchAll(n) ==
    Rule(n, n, Range(0, U32Max), Range(0, U32Max), Range(0, 65535),
         Range(0, 65535), Range(0, 255), Deny)

\* The loop of generate_rules, from iteration i on.
RECURSIVE GenerateRulesLoop(_, _, _, _)
GenerateRulesLoop(s, i, n_rules, acc) ==
    IF i >= n_rules THEN [rules |-> Append(acc, CatchAll(n_rules)), rng |-> s]
    ELSE LET permit == GenBool08(s)
             action == IF permit.v THEN Permit ELSE Deny
             kind == GenRange(permit.rng, 0, 10)
             gen == IF kind.v <= 5 THEN GenLanToWanRule(kind.rng, i, action)
                    ELSE IF kind.v <= 8 THEN GenWanToLanRule(kind.rng, i, action)
                    ELSE GenIgmpRule(kind.rng, i, action)
         IN GenerateRulesLoop(gen.rng, i + 1, n_rules, Append(acc, gen.rule))

GenerateRulesOf(s, n_rules) == GenerateRulesLoop(s, 0, n_rules, <<>>)

(***************************************************************************)
(* The driver: tests/correctness.rs builds every engine from one rule list *)
(* and classifies packets with all of them.                                *)
(***************************************************************************)
Engines == {"linear", "cutsplit", "hicuts", "hypersplit", "tss", "psort"}

Wildcard(priority, action) ==
    Rule(0, priority, Range(0, U32Max), Range(0, U32Max), Range(0, 65535),
         Range(0, 65535), Range(0, 255), action)

\* The rules a list is assembled from in Spec: the two wildcards of the
\* priority-ordering scenario, overlapping narrower rules, some of equal
\* priority and different action, and a rule whose source range has min > max.
RulePool ==
    { Wildcard(1, Permit),
      Wildcard(0, Deny),
      Rule(0, 0, Range(10, 12), Range(0, U32Max), Range(1024, 65535),
           Range(80, 80), Range(PROTO_TCP, PROTO_TCP), Permit),
      Rule(0, 0, Range(8, 11), Range(0, U32Max), Range(0, 65535),
           Range(80, 81), Range(PROTO_TCP, PROTO_TCP), Deny),
      Rule(0, 1, Range(100, 120), Range(5, 5), Range(0, 65535),
           Range(0, 65535), Range(0, 255), Permit),
      Rule(0, 0, Range(7, 3), Range(0, U32Max), Range(0, 65535),
           Range(0, 65535), Range(0, 255), Permit) }

\* The packets tried on a rule list: three fixed packets, the corners of
\* every rule's box, and the low and the high corner moved one step out of
\* the box in one dimension.
FieldMax(dim) ==
    CASE dim = "SrcIp" -> U32Max
      [] dim = "DstIp" -> U32Max
      [] dim = "SrcPort" -> 65535
      [] dim = "DstPort" -> 65535
      [] dim = "Proto" -> 255

Ends(rule, dim) == {GetRange(rule, dim).min, GetRange(rule, dim).max}

Outside(rule, dim) ==
    {v \in {GetRange(rule, dim).min - 1, GetRange(rule, dim).max + 1} :
        v >= 0 /\ v <= FieldMax(dim)}

Corners(rule) ==
    {FiveTuple(si, di, sp, dp, pr) :
        si \in Ends(rule, "SrcIp"), di \in Ends(rule, "DstIp"),
        sp \in Ends(rule, "SrcPort"), dp \in Ends(rule, "DstPort"),
        pr \in Ends(rule, "Proto")}

Low(rule) ==
    FiveTuple(rule.src_ip.min, rule.dst_ip.min, rule.src_port.min,
              rule.dst_port.min, rule.proto.min)

High(rule) ==
    FiveTuple(rule.src_ip.max, rule.dst_ip.max, rule.src_port.max,
              rule.dst_port.max, rule.proto.max)

Steps(rule) ==
    UNION {
        {[c EXCEPT !.src_ip = v] : v \in Outside(rule, "SrcIp")}
        \cup {[c EXCEPT !.dst_ip = v] : v \in Outside(rule, "DstIp")}
        \cup {[c EXCEPT !.src_port = v] : v \in Outside(rule, "SrcPort")}
        \cup {[c EXCEPT !.dst_port = v] : v \in Outside(rule, "DstPort")}
        \cup {[c EXCEPT !.proto = v] : v \in Outside(rule, "Proto")}
        : c \in {Low(rule), High(rule)} }

ProbePackets(rs) ==
    {FiveTuple(0, 0, 0, 0, 0), FiveTuple(U32Max, U32Max, 65535, 65535, 255),
     FiveTuple(LanBase + 1, 5, 1024, 80, PROTO_TCP)}
    \cup UNION {Corners(rs[i]) \cup Steps(rs[i]) : i \in 1..Len(rs)}

NoResult == [e \in Engines |-> None]

NoCall == [fn |-> "none"]

\* The first position at or after <<i, j>> of build's two loops (rule i,
\* expanded part j) that holds a part; <<Len(rs) + 1, 1>> when none is left.
RECURSIVE TSSPosFrom(_, _, _)
TSSPosFrom(rs, i, j) ==
    IF i > Len(rs) THEN <<Len(rs) + 1, 1>>
    ELSE IF j <= Len(ExpandRule(rs[i])) THEN <<i, j>>
    ELSE TSSPosFrom(rs, i + 1, 1)

Blank ==
    /\ rules = <<>>
    /\ linear = <<>>
    /\ cutsplit = Leaf(<<>>)
    /\ hicuts = Leaf(<<>>)
    /\ hypersplit = Leaf(<<>>)
    /\ psort = <<>>
    /\ tss = << >>
    /\ tssPos = <<1, 1>>
    /\ packet = FiveTuple(0, 0, 0, 0, 0)
    /\ result = NoResult
    /\ call = NoCall

Init ==
    /\ pc = "input"
    /\ rng = 0
    /\ hasher \in 0..MaxHasher
    /\ Blank

\* Spec: one more rule of the pool is appended to the list.
AddRule ==
    /\ pc = "input"
    /\ Len(rules) < MaxRules
    /\ \E r \in RulePool : rules' = Append(rules, [r EXCEPT !.id = Len(rules)])
    /\ UNCHANGED <<pc, rng, hasher, linear, cutsplit, hicuts, hypersplit,
                   psort, tss, tssPos, packet, result, call>>

\* SpecGen: sim.generate_rules(NRules)
GenerateRules ==
    /\ pc = "seeded"
    /\ rules' = GenerateRulesOf(rng, NRules).rules
    /\ rng' = GenerateRulesOf(rng, NRules).rng
    /\ pc' = "input"
    /\ UNCHANGED <<hasher, linear, cutsplit, hicuts, hypersplit, psort, tss,
                   tssPos, packet, result, call>>

\* X::build(&rules) of Linear, CutSplit, HiCuts, HyperSplit and PartitionSort;
\* TSS's build starts (its loop goes on in TSSBuildStep).  A build that
\* never returns ends the run.
Build ==
    /\ pc = "input"
    /\ linear' = LinearBuild(rules)
    /\ cutsplit' = CutSplitBuild(rules)
    /\ hicuts' = HiCutsBuild(rules)
    /\ hypersplit' = HyperSplitBuild(rules)
    /\ psort' = PartitionSortBuild(rules)
    /\ tss' = << >>
    /\ tssPos' = TSSPosFrom(rules, 1, 1)
    /\ pc' = IF psort' = "Overflow" THEN "panic"
             ELSE IF tssPos'[1] > Len(rules) THEN "ready" ELSE "tss"
    /\ UNCHANGED <<rng, hasher, rules, packet, result, call>>

\* One round of the inner loop of TSSClassifier::build.
TSSBuildStep ==
    /\ pc = "tss"
    /\ tss' = TSSInsert(tss, rules[tssPos[1]],
                        ExpandRule(rules[tssPos[1]])[tssPos[2]], hasher)
    /\ tssPos' = TSSPosFrom(rules, tssPos[1], tssPos[2] + 1)
    /\ pc' = IF tssPos'[1] > Len(rules) THEN "ready" ELSE "tss"
    /\ UNCHANGED <<rng, hasher, rules, linear, cutsplit, hicuts, hypersplit,
                   psort, packet, result, call>>

\* classify(&p) of every engine, on one packet.  classify changes nothing
\* of a classifier, so one packet per run shows all there is to see.
Classify ==
    /\ pc = "ready"
    /\ \E p \in ProbePackets(rules) :
        /\ packet' = p
        /\ result' = [e \in Engines |->
              CASE e = "linear" -> LinearClassify(linear, p)
                [] e = "cutsplit" -> CutSplitClassify(cutsplit, p)
                [] e = "hicuts" -> HiCutsClassify(hicuts, p)
                [] e = "hypersplit" -> HyperSplitClassify(hypersplit, p)
                [] e = "tss" -> TSSClassify(tss, p, hasher)
                [] e = "psort" -> PartitionSortClassify(psort, p)]
    /\ pc' = "classified"
    /\ UNCHANGED <<rng, hasher, rules, linear, cutsplit, hicuts,
                   hypersplit, psort, tss, tssPos, call>>

Next == AddRule \/ Build \/ TSSBuildStep \/ Classify

Spec == Init /\ [][Next]_vars

InitGen ==
    /\ pc = "seeded"
    /\ rng \in 0..MaxSeed
    /\ hasher \in 0..MaxHasher
    /\ Blank

NextGen == GenerateRules \/ Build \/ TSSBuildStep \/ Classify

SpecGen == InitGen /\ [][NextGen]_vars

(***************************************************************************)
(* The reference the claims are stated against: the rules of the build     *)
(* input that match the packet, by priority value and input position.      *)
(***************************************************************************)
MatchingRules == {i \in 1..Len(rules) : Matches(rules[i], packet)}

LowestMatching ==
    {i \in MatchingRules : \A j \in MatchingRules : rules[i].priority <= rules[j].priority}

\* The action of the first rule, in input order, among the matching rules
\* of lowest priority value; None when no rule matches.
ExpectedAction ==
    IF MatchingRules = {} THEN None
    ELSE rules[CHOOSE i \in LowestMatching : \A j \in LowestMatching : i <= j].action

\* The priority property of an engine's answer: None only when nothing
\* matches, and otherwise the action of a matching rule of lowest priority.
PriorityProperty(e) ==
    IF result[e] = None THEN MatchingRules = {}
    ELSE \E i \in LowestMatching : rules[i].action = result[e]

\* Several matching rules share the lowest priority and differ in action.
TiedLowest == \E i, j \in LowestMatching : rules[i].action # rules[j].action

TreeEngines == {"cutsplit", "hicuts", "hypersplit"}

\* C1: for any rule list, in any order and with equal priorities, Linear
\* returns the action of the matching rule of lowest priority value, the
\* first of them in the input when several share it, and None exactly when
\* no rule matches the packet.
C1_LinearContract ==
    pc = "classified" =>
        /\ result["linear"] = ExpectedAction
        /\ (result["linear"] = None <=> MatchingRules = {})

\* Linear has classified a packet for which rules of the lowest priority tie
\* with different actions, behind a rule of higher priority value in the input.
C1_Witness ==
    /\ pc = "classified"
    /\ TiedLowest
    /\ \E i \in MatchingRules \ LowestMatching : \E j \in LowestMatching : i < j
    /\ result["linear"] = ExpectedAction

\* C2: on a rule set produced by generate_rules, CutSplit returns for every
\* packet what Linear returns.
C2_CutSplitEqualsLinear ==
    pc = "classified" => result["cutsplit"] = result["linear"]

\* CutSplit has descended an internal node and answered Permit for a packet
\* that several rules match.
C2_Witness ==
    /\ pc = "classified"
    /\ cutsplit.kind = "Internal"
    /\ Cardinality(MatchingRules) >= 2
    /\ result["cutsplit"] = Permit

\* C3: on a rule set produced by generate_rules, HiCuts returns for every
\* packet what Linear returns.
C3_HiCutsEqualsLinear ==
    pc = "classified" => result["hicuts"] = result["linear"]

\* HiCuts has descended an internal node, into a bin other than the first,
\* and answered Permit for a packet that several rules match.
C3_Witness ==
    /\ pc = "classified"
    /\ hicuts.kind = "Internal"
    /\ PacketField(packet, hicuts.dimension) >= hicuts.start + hicuts.step
    /\ Cardinality(MatchingRules) >= 2
    /\ result["hicuts"] = Permit

\* C4: on a rule set produced by generate_rules, HyperSplit returns for
\* every packet what Linear returns.
C4_HyperSplitEqualsLinear ==
    pc = "classified" => result["hypersplit"] = result["linear"]

\* HyperSplit has descended to the left of an internal node and answered
\* Permit for a packet that several rules match.
C4_Witness ==
    /\ pc = "classified"
    /\ hypersplit.kind = "Internal"
    /\ PacketField(packet, hypersplit.dimension) < hypersplit.pivot
    /\ Cardinality(MatchingRules) >= 2
    /\ result["hypersplit"] = Permit

\* C5: on a rule set produced by generate_rules (distinct priorities), TSS
\* returns for every packet what Linear returns, with the rules expanded to
\* prefixes, merged into tables of shorter prefixes and the buckets scanned
\* with the early exit.
C5_TSSEqualsLinear ==
    pc = "classified" => result["tss"] = result["linear"]

\* TSS has answered Permit for a packet whose key finds buckets in several
\* tables, one of them holding several rules.
C5_Witness ==
    /\ pc = "classified"
    /\ result["tss"] = Permit
    /\ Cardinality({t \in DOMAIN tss : TupleKeyNew(packet, t) \in DOMAIN tss[t]}) >= 2
    /\ \E t \in DOMAIN tss :
          /\ TupleKeyNew(packet, t) \in DOMAIN tss[t]
          /\ Len(tss[t][TupleKeyNew(packet, t)]) >= 2

\* C6: on a rule set produced by generate_rules (distinct priorities, valid
\* ranges), PartitionSort returns for every packet what Linear returns.
C6_PartitionSortEqualsLinear ==
    pc = "classified" => result["psort"] = result["linear"]

\* PartitionSort has answered Permit from a child of the root, for a packet
\* that a rule of the root's list matches as well.
C6_Witness ==
    /\ pc = "classified"
    /\ Len(psort) = 1
    /\ PacketField(packet, Dimensions[psort[1].field_idx + 1]) # psort[1].root.center
    /\ ScanNode(psort[1].root.rules, 1, packet, NoRule) # NoRule
    /\ ScanNode(psort[1].root.rules, 1, packet, NoRule).action = Deny
    /\ result["psort"] = Permit

\* C7: for any rule list in any order, CutSplit, HiCuts and HyperSplit each
\* return the action of a matching rule of lowest priority value (and not
\* that of the first matching rule of the input): for [wildcard Permit of
\* priority 1, wildcard Deny of priority 0] they return Deny.
C7_TreeEnginesPriority ==
    pc = "classified" => \A e \in TreeEngines : PriorityProperty(e)

\* C8: for any rule list in any order, what TSS and PartitionSort return is
\* the action of a matching rule of lowest priority value, and None only
\* when no rule matches.
C8_PriorityProperty ==
    pc = "classified" => PriorityProperty("tss") /\ PriorityProperty("psort")

\* TSS and PartitionSort have answered for a packet that rules of different
\* priority values match, the first of them in the input not of the lowest,
\* with the rules spread over several tables and several tree nodes.
C8_Witness ==
    /\ pc = "classified"
    /\ MatchingRules # LowestMatching
    /\ \E i \in MatchingRules \ LowestMatching : \A j \in LowestMatching : i < j
    /\ Cardinality(DOMAIN tss) >= 2
    /\ Len(psort) = 1
    /\ (psort[1].root.left # NoNode \/ psort[1].root.right # NoNode)
    /\ result["tss"] # None
    /\ result["psort"] # None

\* C9: when matching rules share the lowest priority value and differ in
\* action, TSS and PartitionSort return the action of the first of them in
\* the build input, as Linear does.
C9_TiesByInsertionOrder ==
    (pc = "classified" /\ TiedLowest) =>
        /\ result["tss"] = ExpectedAction
        /\ result["psort"] = ExpectedAction

\* C10: for the empty rule list every build returns, and every engine
\* returns None for every packet.
C10_EmptyRuleSet ==
    rules = <<>> =>
        /\ pc \in {"input", "ready", "classified"}
        /\ (pc = "classified" => \A e \in Engines : result[e] = None)
        /\ (pc # "input" =>
               /\ linear = <<>>
               /\ cutsplit = Leaf(<<>>)
               /\ hicuts = Leaf(<<>>)
               /\ hypersplit = Leaf(<<>>)
               /\ tss = << >>
               /\ psort = <<>>)

\* The engines built from the empty list have classified a packet other
\* than the all-zero one.
C10_Witness ==
    /\ rules = <<>>
    /\ pc = "classified"
    /\ packet.src_ip # 0

(***************************************************************************)
(* Termination of build, and rules whose range has min > max.              *)
(***************************************************************************)
ValidRange(rule) == \A d \in 1..5 : GetRange(rule, Dimensions[d]).min <= GetRange(rule, Dimensions[d]).max

ValidRanges == \A i \in 1..Len(rules) : ValidRange(rules[i])

\* The number of internal nodes on the longest path of a binary tree
\* (CutSplit, HyperSplit) and of a HiCuts tree.
RECURSIVE Height(_)
Height(node) ==
    IF node.kind = "Internal" THEN 1 + Max(Height(node.left), Height(node.right))
    ELSE 0

RECURSIVE HiCutsHeight(_)
RECURSIVE HighestChild(_, _)
HighestChild(children, i) ==
    IF i > Len(children) THEN 0
    ELSE Max(HiCutsHeight(children[i]), HighestChild(children, i + 1))

HiCutsHeight(node) ==
    IF node.kind = "Internal" THEN 1 + HighestChild(node.children, 1) ELSE 0

\* The order of the positions <<rule, part>> of the two loops of TSS's build.
TSSPosBefore(p, q) == p[1] < q[1] \/ (p[1] = q[1] /\ p[2] < q[2])

BuildsReturned ==
    /\ pc # "panic"
    /\ Height(cutsplit) <= CutSplitMaxDepth
    /\ HiCutsHeight(hicuts) <= HiCutsMaxDepth
    /\ Height(hypersplit) <= HyperSplitMaxDepth
    /\ (pc = "tss" => /\ tssPos[1] \in 1..Len(rules)
                       /\ tssPos[2] \in 1..Len(ExpandRule(rules[tssPos[1]])))
    /\ (pc = "ready" => /\ tssPos = <<Len(rules) + 1, 1>>
                         /\ ~PartitionSortOverflows(rules))

AnswersValidRule(e) ==
    \/ result[e] = None
    \/ \E i \in MatchingRules : ValidRange(rules[i]) /\ rules[i].action = result[e]

\* C12: with a rule of min > max in some dimension in the list, the build of
\* every engine returns (PartitionSort's too) and no engine answers with
\* that rule.
C12_InvertedRangeHarmless ==
    (~ValidRanges /\ pc # "input") =>
        /\ pc \in {"tss", "ready", "classified"}
        /\ (pc = "classified" => \A e \in Engines : AnswersValidRule(e))

(***************************************************************************)
(* Appending a rule of lower precedence.                                   *)
(***************************************************************************)
\* TSS's build as one fold over the expanded parts of the rules, the loop
\* that TSSBuildStep takes a round at a time.
RECURSIVE TSSBuildFrom(_, _, _, _)
TSSBuildFrom(tables, rs, pos, h) ==
    IF pos[1] > Len(rs) THEN tables
    ELSE TSSBuildFrom(TSSInsert(tables, rs[pos[1]], ExpandRule(rs[pos[1]])[pos[2]], h),
                      rs, TSSPosFrom(rs, pos[1], pos[2] + 1), h)

TSSBuild(rs, h) == TSSBuildFrom(<< >>, rs, TSSPosFrom(rs, 1, 1), h)

\* build on a rule list followed by classify of a packet, by engine.
ClassifyOn(e, rs, p, h) ==
    CASE e = "linear" -> LinearClassify(LinearBuild(rs), p)
      [] e = "cutsplit" -> CutSplitClassify(CutSplitBuild(rs), p)
      [] e = "hicuts" -> HiCutsClassify(HiCutsBuild(rs), p)
      [] e = "hypersplit" -> HyperSplitClassify(HyperSplitBuild(rs), p)
      [] e = "tss" -> TSSClassify(TSSBuild(rs, h), p, h)
      [] e = "psort" -> PartitionSortClassify(PartitionSortBuild(rs), p)

\* The rules before the last one, and whether the last one has a priority
\* value above all of theirs.
Front == SubSeq(rules, 1, Len(rules) - 1)

LastIsLowestPrecedence ==
    /\ Len(rules) >= 2
    /\ \A i \in 1..(Len(rules) - 1) : rules[i].priority < rules[Len(rules)].priority

\* C13: when the last rule of the list has a priority value strictly above
\* every rule before it, every engine answers a packet that some earlier rule
\* matches as it answers it on the list without the last rule.
C13_AppendLowerPrecedence ==
    (/\ pc = "classified"
     /\ LastIsLowestPrecedence
     /\ \E i \in 1..(Len(rules) - 1) : Matches(rules[i], packet))
    => \A e \in Engines : result[e] = ClassifyOn(e, Front, packet, hasher)

(***************************************************************************)
(* SpecUtil: the prefix decomposition and the masks called on their own.   *)
(* The 8-bit functions are called on every input; the 16-bit and the       *)
(* address-wide ones on the values around the ends, the middle and the     *)
(* quarters of the domain; range_to_prefixes_u32, whose width is an        *)
(* argument, also on every range of a SmallBits-wide field.                *)
(***************************************************************************)
SmallBits == 3

Samples(bits) ==
    {0, 1, 2, 3, 5, 6,
     2^(bits - 2), 3 * 2^(bits - 2) - 1,
     2^(bits - 1) - 1, 2^(bits - 1), 2^(bits - 1) + 1,
     2^bits - 2, 2^bits - 1}

PrefixCall(fn, min, max, bits, ret) ==
    [fn |-> fn, min |-> min, max |-> max, bits |-> bits, ret |-> ret]

MaskCall(fn, val, len, bits, ret) ==
    [fn |-> fn, val |-> val, len |-> len, bits |-> bits, ret |-> ret]

\* A run makes one call.
UtilUnchanged ==
    UNCHANGED <<rng, hasher, rules, linear, cutsplit, hicuts, hypersplit,
                psort, tss, tssPos, packet, result>>

RangeToPrefixesU32Call ==
    /\ pc = "util"
    /\ pc' = "called"
    /\ \/ \E min, max \in Samples(IpBits) :
            call' = PrefixCall("range_to_prefixes_u32", min, max, IpBits,
                               RangeToPrefixesU32(min, max, IpBits))
       \/ \E min, max \in 0..(2^SmallBits - 1) :
            call' = PrefixCall("range_to_prefixes_u32", min, max, SmallBits,
                               RangeToPrefixesU32(min, max, SmallBits))
    /\ UtilUnchanged

RangeToPrefixesU16Call ==
    /\ pc = "util"
    /\ pc' = "called"
    /\ \E min, max \in Samples(16) :
          call' = PrefixCall("range_to_prefixes_u16", min, max, 16,
                             RangeToPrefixesU16(min, max))
    /\ UtilUnchanged

RangeToPrefixesU8Call ==
    /\ pc = "util"
    /\ pc' = "called"
    /\ \E min, max \in 0..U8Max :
          call' = PrefixCall("range_to_prefixes_u8", min, max, 8,
                             RangeToPrefixesU8(min, max))
    /\ UtilUnchanged

MaskU32Call ==
    /\ pc = "util"
    /\ pc' = "called"
    /\ \E val \in Samples(IpBits), len \in 0..(IpBits + 2) :
          call' = MaskCall("mask_u32", val, len, IpBits, MaskU32(val, len))
    /\ UtilUnchanged

MaskU16Call ==
    /\ pc = "util"
    /\ pc' = "called"
    /\ \E val \in Samples(16), len \in 0..18 :
          call' = MaskCall("mask_u16", val, len, 16, MaskU16(val, len))
    /\ UtilUnchanged

MaskU8Call ==
    /\ pc = "util"
    /\ pc' = "called"
    /\ \E val \in 0..U8Max, len \in 0..10 :
          call' = MaskCall("mask_u8", val, len, 8, MaskU8(val, len))
    /\ UtilUnchanged

InitUtil ==
    /\ pc = "util"
    /\ rng = 0
    /\ hasher = 0
    /\ Blank

NextUtil ==
    \/ RangeToPrefixesU32Call
    \/ RangeToPrefixesU16Call
    \/ RangeToPrefixesU8Call
    \/ MaskU32Call
    \/ MaskU16Call
    \/ MaskU8Call

SpecUtil == InitUtil /\ [][NextUtil]_vars

(***************************************************************************)
(* The prefix decomposition and the masks.                                 *)
(***************************************************************************)
PrefixFns == {"range_to_prefixes_u32", "range_to_prefixes_u16", "range_to_prefixes_u8"}

MaskFns == {"mask_u32", "mask_u16", "mask_u8"}

\* The block of addresses of a prefix of a bits-wide field: its first and
\* last address and its size.
BlockSize(p, bits) == 2^(bits - p.len)

BlockEnd(p, bits) == p.value + BlockSize(p, bits) - 1

RECURSIVE SumSizes(_, _)
SumSizes(ps, bits) ==
    IF ps = <<>> THEN 0 ELSE BlockSize(Head(ps), bits) + SumSizes(Tail(ps), bits)

PairwiseDisjoint(ps, bits) ==
    \A i, j \in 1..Len(ps) :
        i < j => (BlockEnd(ps[i], bits) < ps[j].value \/ BlockEnd(ps[j], bits) < ps[i].value)

Aligned(p, bits) == p.len \in 0..bits /\ p.value % BlockSize(p, bits) = 0

\* The union is [min, max]: disjoint blocks, all inside [min, max], whose
\* sizes add up to max - min + 1, cover every value of [min, max].
ExactCover(ps, min, max, bits) ==
    /\ PairwiseDisjoint(ps, bits)
    /\ \A i \in 1..Len(ps) : min <= ps[i].value /\ BlockEnd(ps[i], bits) <= max
    /\ SumSizes(ps, bits) = max - min + 1

\* C14: the prefixes returned for a range with min <= max are pairwise
\* disjoint, each value is aligned to its length, and their union is exactly
\* [min, max].
C14_PrefixesPartitionRange ==
    (call.fn \in PrefixFns /\ call.min <= call.max) =>
        /\ \A i \in 1..Len(call.ret) : Aligned(call.ret[i], call.bits)
        /\ ExactCover(call.ret, call.min, call.max, call.bits)

\* A 16-bit range that ends at the type's maximum has been decomposed into
\* one prefix of every length.
C14_Witness ==
    /\ call.fn = "range_to_prefixes_u16"
    /\ call.min = 1
    /\ call.max = U16Max
    /\ Len(call.ret) = 16

\* The aligned blocks inside [min, max] that no larger aligned block inside
\* [min, max] contains, counted down the trie from the block v/size.  Every
\* prefix of a list whose union is [min, max] lies in one of them, so no such
\* list is shorter.
RECURSIVE MaximalBlocks(_, _, _, _)
MaximalBlocks(min, max, v, size) ==
    IF max < v \/ v + size - 1 < min THEN 0
    ELSE IF min <= v /\ v + size - 1 <= max THEN 1
    ELSE MaximalBlocks(min, max, v, size \div 2)
         + MaximalBlocks(min, max, v + size \div 2, size \div 2)

\* The lengths of the blocks that may start at current: aligned, and ending
\* at or before max.
FittingLens(current, max, bits) ==
    {l \in 0..bits : current % 2^(bits - l) = 0 /\ current + 2^(bits - l) - 1 <= max}

\* The length of the shortest list of aligned blocks that starts at current
\* and ends at max exactly, by trying every block at every step.
RECURSIVE ShortestCover(_, _, _)
ShortestCover(current, max, bits) ==
    IF current > max THEN 0
    ELSE LET tails == {ShortestCover(current + 2^(bits - l), max, bits) :
                          l \in FittingLens(current, max, bits)}
         IN 1 + (CHOOSE n \in tails : \A m \in tails : n <= m)

\* Where the loop stands when it emits prefix i: at min, then after the
\* block before.
Current(ps, min, bits, i) == IF i = 1 THEN min ELSE BlockEnd(ps[i - 1], bits) + 1

\* C15: the list is minimal, and each prefix is the largest block that
\* starts at the loop's current value, is aligned there and ends at or before
\* max.
C15_PrefixesMinimal ==
    (call.fn \in PrefixFns /\ call.min <= call.max) =>
        /\ Len(call.ret) = MaximalBlocks(call.min, call.max, 0, 2^call.bits)
        /\ (call.bits = SmallBits =>
               Len(call.ret) = ShortestCover(call.min, call.max, call.bits))
        /\ \A i \in 1..Len(call.ret) :
              LET current == Current(call.ret, call.min, call.bits, i)
                  fitting == FittingLens(current, call.max, call.bits)
              IN /\ call.ret[i].value = current
                 /\ call.ret[i].len \in fitting
                 /\ \A l \in fitting : call.ret[i].len <= l

\* An 8-bit range whose loop was stopped by max before the alignment allowed
\* a larger block, and by the alignment before max did.
C15_Witness ==
    /\ call.fn = "range_to_prefixes_u8"
    /\ call.min = 1
    /\ call.max = 254
    /\ Len(call.ret) = 14

Bit(v, i) == (v \div 2^i) % 2

\* C16: a mask applied to its own result changes nothing; length 0 gives 0;
\* a length of the width or more gives the value back; a length between
\* keeps the top len bits and zeroes the others.
C16_MaskContract ==
    call.fn \in MaskFns =>
        /\ Mask(call.ret, call.len, call.bits) = call.ret
        /\ (call.len = 0 => call.ret = 0)
        /\ (call.len >= call.bits => call.ret = call.val)
        /\ \A i \in 0..(call.bits - 1) :
              (0 < call.len /\ call.len < call.bits) =>
                  Bit(call.ret, i) = IF i >= call.bits - call.len
                                     THEN Bit(call.val, i) ELSE 0
        /\ call.ret \in 0..(2^call.bits - 1)

\* A mask of a length strictly inside the width has cleared set bits and
\* kept set bits.
C16_Witness ==
    /\ call.fn = "mask_u8"
    /\ call.val = U8Max
    /\ call.len = 3
    /\ call.ret = 224

(***************************************************************************)
(* SpecDraw: generate_rules with every draw of the generator free.  The    *)
(* draws are taken from the ends of their ranges and, for the addresses    *)
(* drawn with gen::<u32>(), from the values around u32::MAX - span.  A u32 *)
(* addition that exceeds u32::MAX panics where overflow checks are on (a   *)
(* debug build) and wraps where they are off (a release build).            *)
(***************************************************************************)
DrawRules == 2

LanDraws ==
    [kind : {0}, permit : BOOLEAN, mask : {16, IpBits - 1}, suffix : {U32Max},
     span : {0, SrcSpan - 1}, u32 : {0, U32Max - DstSpan, U32Max - DstSpan + 1},
     port : {0}, tcp : {TRUE}]

WanDraws ==
    [kind : {6}, permit : BOOLEAN, mask : {16}, suffix : {U32Max}, span : {0},
     u32 : {0, U32Max - WanSpan, U32Max}, port : {0}, tcp : {TRUE}]

IgmpDraws ==
    [kind : {9}, permit : BOOLEAN, mask : {16}, suffix : {0}, span : {0},
     u32 : {0}, port : {0}, tcp : {TRUE}]

Draws == LanDraws \cup WanDraws \cup IgmpDraws

\* One round of generate_rules' loop on the draws d.
DrawRule(d, i) ==
    LET action == IF d.permit THEN Permit ELSE Deny
    IN IF d.kind <= 5
       THEN LanToWanRule(d.mask, d.suffix, d.span, d.u32, ServicePort(d.port), d.tcp, i, action)
       ELSE IF d.kind <= 8 THEN WanToLanRule(d.u32, d.suffix, i, action)
       ELSE GenIgmpRule(0, i, action).rule

DrawOverflows(d) ==
    IF d.kind <= 5 THEN LanToWanOverflows(d.mask, d.suffix, d.span, d.u32)
    ELSE IF d.kind <= 8 THEN WanToLanOverflows(d.u32)
    ELSE FALSE

GenerateRulesDraw ==
    /\ pc = "seeded"
    /\ \E draws \in [0..(DrawRules - 1) -> Draws], overflow_checks \in BOOLEAN :
          IF overflow_checks /\ \E i \in DOMAIN draws : DrawOverflows(draws[i])
          THEN pc' = "panic" /\ rules' = rules
          ELSE /\ pc' = "input"
               /\ rules' = Append([i \in 1..DrawRules |-> DrawRule(draws[i - 1], i - 1)],
                                  CatchAll(DrawRules))
    /\ UNCHANGED <<rng, hasher, linear, cutsplit, hicuts, hypersplit, psort, tss,
                   tssPos, packet, result, call>>

InitDraw ==
    /\ pc = "seeded"
    /\ rng = 0
    /\ hasher = 0
    /\ Blank

NextDraw == GenerateRulesDraw \/ Build \/ TSSBuildStep \/ Classify

SpecDraw == InitDraw /\ [][NextDraw]_vars

\* C17: once generate_rules(n) has been called there are n + 1 rules, rule
\* i has id = priority = i, and the last one is the wildcard Deny of priority
\* n; so every packet classified matches a rule and Linear answers it.
C17_GeneratedSetShape ==
    pc # "seeded" =>
        /\ Len(rules) = DrawRules + 1
        /\ \A i \in 1..Len(rules) : rules[i].id = i - 1 /\ rules[i].priority = i - 1
        /\ rules[Len(rules)] = CatchAll(DrawRules)
        /\ (pc = "classified" => (MatchingRules # {} /\ result["linear"] # None))

\* C18: whatever the draws, generate_rules returns, and every rule it
\* returns has min <= max in its five dimensions.
C18_GeneratedRangesValid ==
    pc # "seeded" => (pc # "panic" /\ ValidRanges)

(***************************************************************************)
(* SpecDeep: build on rule lists that drive the tree builders to their     *)
(* depth limit.                                                            *)
(*   WildcardChain(k): k wildcards and a rule of source range [0, 5].  The *)
(*   median cut or split, at 6, keeps every rule on its left side, so      *)
(*   CutSplit and HyperSplit find the same cut again in the left child.    *)
(*   PointChain: eleven rules of the single packet 0 and, in three         *)
(*   dimensions, one-address rules placed so that each of HiCuts's cuts    *)
(*   takes one of them away from the bin of the eleven.                    *)
(*   AllWildcards: eleven wildcards, which no cut separates.               *)
(*   Clusters: rules that several cuts separate, some better than others.  *)
(***************************************************************************)
MinWildcards == 8

MaxWildcards == 10

PointRules == 11

WildcardChain(k) ==
    [i \in 1..(k + 1) |->
        IF i <= k
        THEN Rule(i - 1, i - 1, Range(0, U32Max), Range(0, U32Max), Range(0, 65535),
                  Range(0, 65535), Range(0, 255), Permit)
        ELSE Rule(i - 1, i - 1, Range(0, 5), Range(0, U32Max), Range(0, 65535),
                  Range(0, 65535), Range(0, 255), Deny)]

\* The addresses of a w-bit field that HiCuts separates from address 0 one
\* at a time: the first by a cut in 2, the next by a cut in 16, and so on.
RECURSIVE ChainPoints(_)
ChainPoints(w) ==
    IF w >= 5 THEN <<2^(w - 1), 2^(w - 5)>> \o ChainPoints(w - 5)
    ELSE IF w >= 1 THEN <<2^(w - 1)>>
    ELSE <<>>

PointRule(sip, dip, sport) ==
    Rule(0, 0, Range(sip, sip), Range(dip, dip), Range(sport, sport),
         Range(0, 0), Range(0, 0), Permit)

PointChain ==
    LET points == [i \in 1..PointRules |-> PointRule(0, 0, 0)]
                  \o [i \in 1..Len(ChainPoints(IpBits)) |-> PointRule(ChainPoints(IpBits)[i], 0, 0)]
                  \o [i \in 1..Len(ChainPoints(IpBits)) |-> PointRule(0, ChainPoints(IpBits)[i], 0)]
                  \o [i \in 1..Len(ChainPoints(PortBits)) |-> PointRule(0, 0, ChainPoints(PortBits)[i])]
    IN [i \in 1..Len(points) |->
           [points[i] EXCEPT !.id = i - 1, !.priority = i - 1,
                             !.action = IF i % 2 = 0 THEN Deny ELSE Permit]]

\* Wildcards only: no cut separates them.
AllWildcards ==
    [i \in 1..PointRules |->
        Rule(i - 1, i - 1, Range(0, U32Max), Range(0, U32Max), Range(0, 65535),
             Range(0, 65535), Range(0, 255), IF i % 2 = 0 THEN Deny ELSE Permit)]

\* Two clusters of twelve one-address source rules, at the two ends of the
\* address space, whose destinations are one half of the space or the other:
\* a cut of either address dimension makes progress, by different amounts,
\* at the root and again below it.
Clusters ==
    [i \in 1..24 |->
        LET m == (i - 1) % 12
            src == IF i <= 12 THEN m * 2^(IpBits - 8) ELSE U32Max - m * 2^(IpBits - 8)
            low == IF i <= 12 THEN m < 10 ELSE m < 9
        IN Rule(i - 1, i - 1, Range(src, src),
                IF low THEN Range(0, 2^(IpBits - 1) - 1) ELSE Range(2^(IpBits - 1), U32Max),
                Range(0, 65535), Range(0, 65535), Range(0, 255),
                IF i % 2 = 0 THEN Deny ELSE Permit)]

DeepLists ==
    {WildcardChain(k) : k \in MinWildcards..MaxWildcards}
    \cup {PointChain, AllWildcards, Clusters}

InitDeep ==
    /\ pc = "input"
    /\ rng = 0
    /\ hasher \in 0..MaxHasher
    /\ rules \in DeepLists
    /\ linear = <<>>
    /\ cutsplit = Leaf(<<>>)
    /\ hicuts = Leaf(<<>>)
    /\ hypersplit = Leaf(<<>>)
    /\ psort = <<>>
    /\ tss = << >>
    /\ tssPos = <<1, 1>>
    /\ packet = FiveTuple(0, 0, 0, 0, 0)
    /\ result = NoResult
    /\ call = NoCall

NextDeep == Build \/ TSSBuildStep \/ Classify

SpecDeep == InitDeep /\ [][NextDeep]_vars

(***************************************************************************)
(* The shape of the trees.                                                 *)
(***************************************************************************)
\* The value at which an internal node of CutSplit or HyperSplit divides.
CutOf(node) == IF "cut_val" \in DOMAIN node THEN node.cut_val ELSE node.pivot

\* Down a binary tree built from rs: a node built from at most threshold
\* rules is a Leaf of exactly those rules.  The children of an internal node
\* were built from the rules that start below its cut and from the rules
\* that end at or above it.
RECURSIVE SmallNodesAreLeaves(_, _, _)
SmallNodesAreLeaves(node, rs, threshold) ==
    IF Len(rs) <= threshold THEN node = Leaf(rs)
    ELSE node.kind = "Internal" =>
            /\ SmallNodesAreLeaves(node.left,
                   SelectSeq(rs, LAMBDA r : GetRange(r, node.dimension).min < CutOf(node)),
                   threshold)
            /\ SmallNodesAreLeaves(node.right,
                   SelectSeq(rs, LAMBDA r : GetRange(r, node.dimension).max >= CutOf(node)),
                   threshold)

\* The same down a HiCuts tree built from rs on the region ranges: child i
\* was built from the rules that overlap bin i of the node's dimension.
RECURSIVE HiCutsSmallNodesAreLeaves(_, _, _)
HiCutsSmallNodesAreLeaves(node, rs, ranges) ==
    IF Len(rs) <= HiCutsLeafThreshold THEN node = Leaf(rs)
    ELSE node.kind = "Internal" =>
            \A i \in 1..node.num_cuts :
                LET lo == node.start + (i - 1) * node.step
                    hi == IF i = node.num_cuts THEN ranges[node.dimension].max
                          ELSE node.start + i * node.step - 1
                IN HiCutsSmallNodesAreLeaves(
                       node.children[i],
                       SelectSeq(rs, LAMBDA r : /\ GetRange(r, node.dimension).min <= hi
                                                /\ GetRange(r, node.dimension).max >= lo),
                       [ranges EXCEPT ![node.dimension] = Range(lo, hi)])

\* C19: no path of a built tree has more internal nodes than the engine's
\* max_depth (20 for CutSplit and HiCuts, 32 for HyperSplit), and every node
\* built from at most leaf_threshold rules (10, 10, 8) is a Leaf that holds
\* exactly those rules.
C19_TreeShape ==
    pc \in {"tss", "ready", "classified"} =>
        /\ Height(cutsplit) <= CutSplitMaxDepth
        /\ HiCutsHeight(hicuts) <= HiCutsMaxDepth
        /\ Height(hypersplit) <= HyperSplitMaxDepth
        /\ SmallNodesAreLeaves(cutsplit, rules, CutSplitLeafThreshold)
        /\ HiCutsSmallNodesAreLeaves(hicuts, rules, HiCutsRootRanges)
        /\ SmallNodesAreLeaves(hypersplit, rules, HyperSplitLeafThreshold)

\* Trees that the depth limit has cut off: CutSplit's and HyperSplit's on
\* the wildcards with a narrow rule, HiCuts's on the chain of points.
C19_Witness ==
    /\ pc = "ready"
    /\ \/ (Height(cutsplit) = CutSplitMaxDepth /\ Height(hypersplit) = HyperSplitMaxDepth)
       \/ HiCutsHeight(hicuts) = HiCutsMaxDepth

(***************************************************************************)
(* CutSplit's choice of cut.                                               *)
(***************************************************************************)
\* The cut that find_best_cut proposes in a dimension: the element of index
\* |points| / 2 of the sorted set of the rules' min and max + 1 (saturating).
CutPoints(rs, dim) ==
    {GetRange(rs[i], dim).min : i \in 1..Len(rs)}
    \cup {Min(GetRange(rs[i], dim).max + 1, U32Max) : i \in 1..Len(rs)}

MedianCut(rs, dim) ==
    CHOOSE v \in CutPoints(rs, dim) :
        Cardinality({u \in CutPoints(rs, dim) : u < v}) = Cardinality(CutPoints(rs, dim)) \div 2

\* L and R of a cut, and whether the cut survives.
CutL(rs, dim, v) == Cardinality({i \in 1..Len(rs) : GetRange(rs[i], dim).min < v})

CutR(rs, dim, v) == Cardinality({i \in 1..Len(rs) : GetRange(rs[i], dim).max >= v})

CutCost(rs, dim) == CutL(rs, dim, MedianCut(rs, dim)) + CutR(rs, dim, MedianCut(rs, dim))

Survives(rs, dim) ==
    LET l == CutL(rs, dim, MedianCut(rs, dim))
        r == CutR(rs, dim, MedianCut(rs, dim))
    IN l # 0 /\ r # 0 /\ ~(l = Len(rs) /\ r = Len(rs))

\* The positions, in the order SrcIp, DstIp, SrcPort, DstPort, of the
\* dimensions whose cut survives; Proto is not among the four.
Survivors(rs) == {k \in 1..4 : Survives(rs, Dimensions[k])}

\* The survivor of greatest |rules| / (L + R), which is the one of least
\* L + R, and among equals the first in the order.
BestSurvivor(rs) ==
    CHOOSE k \in Survivors(rs) :
        \A j \in Survivors(rs) :
            \/ CutCost(rs, Dimensions[k]) < CutCost(rs, Dimensions[j])
            \/ (CutCost(rs, Dimensions[k]) = CutCost(rs, Dimensions[j]) /\ k <= j)

\* Down the tree built from rs at depth: wherever find_best_cut was called,
\* the node is a Leaf of rs when no cut survives and otherwise an internal
\* node of the best survivor's dimension and cut.
RECURSIVE CutsAreBest(_, _, _)
CutsAreBest(node, rs, depth) ==
    IF Len(rs) <= CutSplitLeafThreshold \/ depth >= CutSplitMaxDepth THEN TRUE
    ELSE IF Survivors(rs) = {} THEN node = Leaf(rs)
    ELSE LET dim == Dimensions[BestSurvivor(rs)]
             val == MedianCut(rs, dim)
         IN /\ node.kind = "Internal"
            /\ node.dimension = dim
            /\ node.cut_val = val
            /\ CutsAreBest(node.left,
                   SelectSeq(rs, LAMBDA r : GetRange(r, dim).min < val), depth + 1)
            /\ CutsAreBest(node.right,
                   SelectSeq(rs, LAMBDA r : GetRange(r, dim).max >= val), depth + 1)

Overlapping(rs, dim, lo, hi) ==
    SelectSeq(rs, LAMBDA r : GetRange(r, dim).min <= hi /\ GetRange(r, dim).max >= lo)

\* Bin i (from 0) of a region's range in a dimension cut into cuts equal
\* strides, the last bin taking the remainder.
BinOf(ranges, dim, cuts, i) ==
    LET lo == ranges[dim].min
        hi == ranges[dim].max
        stride == (hi - lo + 1) \div cuts
    IN Range(lo + i * stride, IF i = cuts - 1 THEN hi ELSE lo + (i + 1) * stride - 1)

\* The maximum bin occupancy of a candidate <<dimension, cuts>>.
Occupancy(rs, ranges, k) ==
    LET count(i) == Len(Overlapping(rs, k[1], BinOf(ranges, k[1], k[2], i).min,
                                    BinOf(ranges, k[1], k[2], i).max))
    IN CHOOSE m \in 0..Len(rs) :
          /\ \E i \in 0..(k[2] - 1) : count(i) = m
          /\ \A i \in 0..(k[2] - 1) : count(i) <= m

\* The candidates of a region: a dimension whose range is not a single value,
\* cut into 2, 4, 8 or 16 when it has that many values.
Candidates(ranges) ==
    {k \in {Dimensions[d] : d \in 1..5} \X {2, 4, 8, 16} :
        /\ ranges[k[1]].min < ranges[k[1]].max
        /\ ranges[k[1]].max - ranges[k[1]].min + 1 >= k[2]}

\* The candidates that make progress.
Qualifying(rs, ranges) ==
    {k \in Candidates(ranges) : Occupancy(rs, ranges, k) < Len(rs)}

\* Down the tree built from rs at depth on the region ranges: wherever
\* select_dimension_and_cuts was called, the node is a Leaf of rs when no
\* candidate qualifies, and otherwise an internal node of a qualifying
\* candidate of least occupancy, each child built from fewer rules than rs.
RECURSIVE SelectionsAreBest(_, _, _, _)
SelectionsAreBest(node, rs, depth, ranges) ==
    IF Len(rs) <= HiCutsLeafThreshold \/ depth >= HiCutsMaxDepth THEN TRUE
    ELSE IF Qualifying(rs, ranges) = {} THEN node = Leaf(rs)
    ELSE /\ node.kind = "Internal"
         /\ node.num_cuts = Len(node.children)
         /\ <<node.dimension, node.num_cuts>> \in Qualifying(rs, ranges)
         /\ \A k \in Qualifying(rs, ranges) :
               Occupancy(rs, ranges, <<node.dimension, node.num_cuts>>)
                   <= Occupancy(rs, ranges, k)
         /\ \A i \in 1..node.num_cuts :
               LET bin == BinOf(ranges, node.dimension, node.num_cuts, i - 1)
                   child_rules == Overlapping(rs, node.dimension, bin.min, bin.max)
               IN /\ Len(child_rules) < Len(rs)
                  /\ SelectionsAreBest(node.children[i], child_rules, depth + 1,
                                       [ranges EXCEPT ![node.dimension] = bin])

\* C21: select_dimension_and_cuts returns a (dim, num_cuts in {2,4,8,16}) of
\* smallest maximum bin occupancy among the candidates whose maximum
\* occupancy is below |rules|; the node is a Leaf when no candidate
\* qualifies; every child of an internal node is built from strictly fewer
\* rules than its parent.
C21_BestSelection ==
    pc = "ready" => SelectionsAreBest(hicuts, rules, 0, HiCutsRootRanges)

\* The root of a built tree is cut by a candidate of smaller occupancy than
\* another qualifying one, with candidates that do not qualify, and its
\* first child is cut again.
C21_Witness ==
    /\ pc = "ready"
    /\ Len(rules) > HiCutsLeafThreshold
    /\ hicuts.kind = "Internal"
    /\ \E k \in Qualifying(rules, HiCutsRootRanges) :
          Occupancy(rules, HiCutsRootRanges, <<hicuts.dimension, hicuts.num_cuts>>)
              < Occupancy(rules, HiCutsRootRanges, k)
    /\ Candidates(HiCutsRootRanges) # Qualifying(rules, HiCutsRootRanges)
    /\ hicuts.children[1].kind = "Internal"

(***************************************************************************)
(* HiCuts's bins, and the index that classify computes.                    *)
(***************************************************************************)
\* index of classify: offset / step, held below num_cuts
ClassifyIndex(node, val) == Min((val - node.start) \div node.step, node.num_cuts - 1)

\* The bins that build_recursive makes of [start, max] for an internal node:
\* bin i is [cut_min, cut_max] of round i of its loop.
NodeBin(node, max, i) ==
    Range(BinMin(node.start, node.step, i),
          BinMax(node.start, max, node.step, node.num_cuts, i))

\* Every intermediate value of cut_min = min_val + i * step and of
\* cut_max = min_val + (i + 1) * step - 1 is a u32, and so is the step
\* that (range_size / num_cuts) as u32 keeps.
NoBinOverflow(node, max) ==
    /\ (max - node.start + 1) \div node.num_cuts \in 0..U32Max
    /\ \A i \in 0..(node.num_cuts - 1) :
          /\ i * node.step \in 0..U32Max
          /\ node.start + i * node.step \in 0..U32Max
          /\ i < node.num_cuts - 1 =>
                /\ (i + 1) * node.step \in 0..U32Max
                /\ node.start + (i + 1) * node.step \in 1..U32Max

\* The bins follow one another from start to max without gap or overlap,
\* each of step values but the last, which has the remainder as well.
BinsPartition(node, max) ==
    /\ NodeBin(node, max, 0).min = node.start
    /\ NodeBin(node, max, node.num_cuts - 1).max = max
    /\ \A i \in 0..(node.num_cuts - 1) :
          /\ NodeBin(node, max, i).min <= NodeBin(node, max, i).max
          /\ i < node.num_cuts - 1 =>
                /\ NodeBin(node, max, i + 1).min = NodeBin(node, max, i).max + 1
                /\ NodeBin(node, max, i).max - NodeBin(node, max, i).min + 1 = node.step
    /\ NodeBin(node, max, node.num_cuts - 1).max
           - NodeBin(node, max, node.num_cuts - 1).min + 1
       = node.step + ((max - node.start + 1) % node.num_cuts)
    /\ \A i, j \in 0..(node.num_cuts - 1) :
          i < j => NodeBin(node, max, i).max < NodeBin(node, max, j).min

\* The index is monotone in the value, so it is i on all of bin i when it is
\* i at both ends of the bin; the values next to the ends are tried as well.
IndexSelectsBin(node, max) ==
    \A i \in 0..(node.num_cuts - 1) :
        \A v \in {NodeBin(node, max, i).min, NodeBin(node, max, i).min + 1,
                  (NodeBin(node, max, i).min + NodeBin(node, max, i).max) \div 2,
                  NodeBin(node, max, i).max - 1, NodeBin(node, max, i).max} :
            Contains(NodeBin(node, max, i), v) => ClassifyIndex(node, v) = i

\* Down a HiCuts tree built on the region ranges.
RECURSIVE BinsAreSound(_, _)
BinsAreSound(node, ranges) ==
    node.kind = "Internal" =>
        /\ node.start = ranges[node.dimension].min
        /\ node.start < ranges[node.dimension].max
        /\ node.step >= 1
        /\ node.num_cuts = Len(node.children)
        /\ NoBinOverflow(node, ranges[node.dimension].max)
        /\ BinsPartition(node, ranges[node.dimension].max)
        /\ IndexSelectsBin(node, ranges[node.dimension].max)
        /\ \A i \in 0..(node.num_cuts - 1) :
              BinsAreSound(node.children[i + 1],
                  [ranges EXCEPT ![node.dimension] =
                      NodeBin(node, ranges[node.dimension].max, i)])

\* C22: in every internal node of a HiCuts tree, of residual range
\* [start, max]: step >= 1; the num_cuts bins of build are pairwise disjoint
\* and cover [start, max], the remainder in the last; no computation of a
\* bin boundary leaves u32, the address-wide root range included; and for
\* every v of [start, max] the index min((v - start) / step, num_cuts - 1)
\* of classify is that of the bin that holds v.
C22_BinsAndIndex ==
    pc = "ready" => BinsAreSound(hicuts, HiCutsRootRanges)

\* A tree whose root cuts the whole address range and whose second child,
\* of a range that starts above 0, is cut in sixteen.
C22_Witness ==
    /\ pc = "ready"
    /\ hicuts.kind = "Internal"
    /\ hicuts.dimension = "SrcIp"
    /\ hicuts.step * hicuts.num_cuts = U32Max + 1
    /\ hicuts.children[2].kind = "Internal"
    /\ hicuts.children[2].start > 0
    /\ hicuts.children[2].num_cuts = 16

(***************************************************************************)
(* HiCuts: the packet's field and the residual range of the nodes it       *)
(* passes.                                                                 *)
(***************************************************************************)
\* Down the path that classify takes for the packet: at every internal node
\* the packet's field is inside the node's residual range.
RECURSIVE PathInside(_, _, _)
PathInside(node, pkt, ranges) ==
    node.kind = "Internal" =>
        LET val == PacketField(pkt, node.dimension)
            max == ranges[node.dimension].max
        IN /\ val >= node.start
           /\ Contains(ranges[node.dimension], val)
           /\ PathInside(node.children[ClassifyIndex(node, val) + 1], pkt,
                         [ranges EXCEPT ![node.dimension] =
                             NodeBin(node, max, ClassifyIndex(node, val))])

\* The path ends in a leaf: classify does not return from an internal node.
RECURSIVE ReachesLeaf(_, _)
ReachesLeaf(node, pkt) ==
    IF node.kind = "Internal"
    THEN /\ PacketField(pkt, node.dimension) >= node.start
         /\ ReachesLeaf(node.children[ClassifyIndex(node, PacketField(pkt, node.dimension)) + 1], pkt)
    ELSE TRUE

\* C23: on a tree that build produced, every packet that reaches an
\* internal node has its field of the node's dimension inside the node's
\* residual range; the branch val < start of classify is not taken, and
\* HiCuts answers None only from a leaf in which no rule matches.
C23_StartBranchUnreachable ==
    pc = "classified" =>
        /\ PathInside(hicuts, packet, HiCutsRootRanges)
        /\ ReachesLeaf(hicuts, packet)
        /\ (result["hicuts"] = None => MatchingRules = {})

\* A packet has passed two internal nodes, the second of a range that
\* starts above 0.
C23_Witness ==
    /\ pc = "classified"
    /\ hicuts.kind = "Internal"
    /\ LET child == hicuts.children[ClassifyIndex(hicuts, PacketField(packet, hicuts.dimension)) + 1]
       IN /\ child.kind = "Internal"
          /\ child.start > 0
          /\ PacketField(packet, child.dimension) >= child.start

(***************************************************************************)
(* HyperSplit's choice of pivot.                                           *)
(***************************************************************************)
\* The stride of the claim: the candidates' count over 16, rounded up.
CeilStride(n) == (n + 15) \div 16

\* The candidates of a dimension sampled at a stride, from the first on.
SampledPivots(rs, dim, stride) ==
    {NthSmallest(CutPoints(rs, dim), i) :
        i \in {j \in 0..(Cardinality(CutPoints(rs, dim)) - 1) : j % stride = 0}}

\* A pivot that is evaluated: not 0, and its split not degenerate.
UsablePivot(rs, dim, v) ==
    /\ v # 0
    /\ CutL(rs, dim, v) # 0
    /\ CutR(rs, dim, v) # 0
    /\ ~(CutL(rs, dim, v) = Len(rs) /\ CutR(rs, dim, v) = Len(rs))

\* Ten times max(L, R) + 0.1 * (L + R).
SplitCost(rs, k) ==
    10 * Max(CutL(rs, k[1], k[2]), CutR(rs, k[1], k[2]))
    + (CutL(rs, k[1], k[2]) + CutR(rs, k[1], k[2]))

\* The <<dimension, pivot>> pairs evaluated when the stride of a dimension
\* of n candidates is CeilStride(n).
EvaluatedSplits(rs) ==
    UNION {{<<Dimensions[d], v>> :
               v \in {u \in SampledPivots(rs, Dimensions[d],
                                          CeilStride(Cardinality(CutPoints(rs, Dimensions[d])))) :
                         UsablePivot(rs, Dimensions[d], u)}}
           : d \in 1..5}

\* Down the tree built from rs at depth: wherever find_best_split was
\* called, the node is a Leaf of rs when no pivot is evaluated and otherwise
\* is split by an evaluated pivot of least cost.
RECURSIVE SplitsAreBest(_, _, _)
SplitsAreBest(node, rs, depth) ==
    IF Len(rs) <= HyperSplitLeafThreshold \/ depth >= HyperSplitMaxDepth THEN TRUE
    ELSE IF EvaluatedSplits(rs) = {} THEN node = Leaf(rs)
    ELSE /\ node.kind = "Internal"
         /\ <<node.dimension, node.pivot>> \in EvaluatedSplits(rs)
         /\ \A k \in EvaluatedSplits(rs) :
               SplitCost(rs, <<node.dimension, node.pivot>>) <= SplitCost(rs, k)
         /\ SplitsAreBest(node.left,
                SelectSeq(rs, LAMBDA r : GetRange(r, node.dimension).min < node.pivot),
                depth + 1)
         /\ SplitsAreBest(node.right,
                SelectSeq(rs, LAMBDA r : GetRange(r, node.dimension).max >= node.pivot),
                depth + 1)

\* C24: find_best_split evaluates, in each of the five dimensions, the sorted
\* distinct candidates {r.min} and {r.max + 1} sampled at the stride
\* ceil(|candidates| / 16) (17 to 31 candidates give 2), but for pivot 0 and
\* the degenerate splits, and returns an evaluated candidate of least cost
\* max(L, R) + 0.1 * (L + R).
C24_BestSplit ==
    pc = "ready" => SplitsAreBest(hypersplit, rules, 0)

(***************************************************************************)
(* SpecOrder: TSSClassifier::build and classify on their own, with the     *)
(* iteration order of the tables map left open.  hashbrown iterates a map  *)
(* in the order of its hash buckets, which changes with the hasher and     *)
(* with every growth of the map, so each loop over the tables may meet     *)
(* them in any order: build's loop keeps the first table of least          *)
(* difference it meets, which may be any of them, and classify's loop      *)
(* probes the tables in any sequence.                                      *)
(***************************************************************************)
OrderRules == 3     \* SpecOrder: longest rule list assembled from OrderPool

\* Mutant of MinDiffTargets: a table is taken however much shorter it is.
MinDiffTargetsNoLimit(tables, rule_tuple) ==
    LET fits == {t \in DOMAIN tables : IsSubsetOf(t, rule_tuple)}
    IN IF fits = {} THEN {rule_tuple}
       ELSE {t \in fits : \A u \in fits :
                BitDifference(t, rule_tuple) <= BitDifference(u, rule_tuple)}

\* The tables that the loop over tables.keys() may leave in
\* best_table_tuple, or rule_tuple itself when it leaves None.
MinDiffTargets(tables, rule_tuple) ==
    LET fits == {t \in DOMAIN tables :
                    /\ IsSubsetOf(t, rule_tuple)
                    /\ BitDifference(t, rule_tuple) <= MAX_MERGE_BITS}
    IN IF fits = {} THEN {rule_tuple}
       ELSE {t \in fits : \A u \in fits :
                BitDifference(t, rule_tuple) <= BitDifference(u, rule_tuple)}

\* Mutant of TSSInsertInto: the bucket's entry is replaced, not added to.
TSSInsertIntoOverwrite(tables, rule, part, target_tuple) ==
    LET table == IF target_tuple \in DOMAIN tables THEN tables[target_tuple] ELSE << >>
        key == TupleKeyFromValues(part.sip, part.dip, part.sport, part.dport,
                                  part.proto, target_tuple)
        newTable == [k \in DOMAIN table \cup {key} |-> IF k = key THEN <<rule>> ELSE table[k]]
    IN [t \in DOMAIN tables \cup {target_tuple} |->
           IF t = target_tuple THEN newTable ELSE tables[t]]

\* Mutant of TSSInsertInto: the key is masked by the lengths of the part's
\* own tuple, not by the target table's.
TSSInsertIntoRuleKey(tables, rule, part, target_tuple) ==
    LET table == IF target_tuple \in DOMAIN tables THEN tables[target_tuple] ELSE << >>
        key == TupleKeyFromValues(part.sip, part.dip, part.sport, part.dport,
                                  part.proto, part.tuple)
        bucket == IF key \in DOMAIN table THEN table[key] ELSE <<>>
        sorted == SortByPriority(Append(bucket, rule))
        newTable == [k \in DOMAIN table \cup {key} |-> IF k = key THEN sorted ELSE table[k]]
    IN [t \in DOMAIN tables \cup {target_tuple} |->
           IF t = target_tuple THEN newTable ELSE tables[t]]

\* The rest of the loop body, once target_tuple is chosen.
TSSInsertInto(tables, rule, part, target_tuple) ==
    LET table == IF target_tuple \in DOMAIN tables THEN tables[target_tuple] ELSE << >>
        key == TupleKeyFromValues(part.sip, part.dip, part.sport, part.dport,
                                  part.proto, target_tuple)
        bucket == IF key \in DOMAIN table THEN table[key] ELSE <<>>
        sorted == SortByPriority(Append(bucket, rule))
        newTable == [k \in DOMAIN table \cup {key} |-> IF k = key THEN sorted ELSE table[k]]
    IN [t \in DOMAIN tables \cup {target_tuple} |->
           IF t = target_tuple THEN newTable ELSE tables[t]]

\* The sequences in which a loop may meet the elements of a set.
RECURSIVE Orders(_)
Orders(S) ==
    IF S = {} THEN {<<>>}
    ELSE UNION {{<<x>> \o rest : rest \in Orders(S \ {x})} : x \in S}

\* The rules a list is assembled from: a wildcard, a rule of two expanded
\* tuples, and two rules of one tuple each, placed so that the tuple of the
\* last is one bit longer than two tables at once.
OrderPool ==
    { Rule(0, 0, Range(0, U32Max), Range(0, U32Max), Range(0, 65535),
           Range(0, 65535), Range(0, 255), Deny),
      Rule(0, 0, Range(10, 11), Range(0, U32Max), Range(1024, 4095),
           Range(80, 80), Range(PROTO_TCP, PROTO_TCP), Permit),
      Rule(0, 0, Range(12, 12), Range(0, U32Max), Range(2048, 4095),
           Range(80, 80), Range(PROTO_TCP, PROTO_TCP), Permit),
      Rule(0, 0, Range(10, 10), Range(0, U32Max), Range(1024, 2047),
           Range(80, 80), Range(PROTO_TCP, PROTO_TCP), Deny) }

\* One more rule of the pool, not yet in the list, is appended with a
\* priority of the caller's choice.
AddOrderRule ==
    /\ pc = "input"
    /\ Len(rules) < OrderRules
    /\ \E r \in OrderPool, priority \in 0..2 :
          /\ \A i \in 1..Len(rules) : [rules[i] EXCEPT !.id = 0, !.priority = 0] # r
          /\ rules' = Append(rules, [r EXCEPT !.id = Len(rules), !.priority = priority])
    /\ UNCHANGED <<pc, rng, hasher, linear, cutsplit, hicuts, hypersplit,
                   psort, tss, tssPos, packet, result, call>>

\* TSSClassifier::build(&rules) starts: no table yet.
TSSBuildStart ==
    /\ pc = "input"
    /\ tss' = << >>
    /\ tssPos' = TSSPosFrom(rules, 1, 1)
    /\ pc' = IF tssPos'[1] > Len(rules) THEN "ready" ELSE "tss"
    /\ UNCHANGED <<rng, hasher, rules, linear, cutsplit, hicuts, hypersplit,
                   psort, packet, result, call>>

\* One round of the inner loop of build, the tables met in any order.
TSSBuildStepAnyOrder ==
    /\ pc = "tss"
    /\ \E target_tuple \in MinDiffTargets(tss, ExpandRule(rules[tssPos[1]])[tssPos[2]].tuple) :
          tss' = TSSInsertInto(tss, rules[tssPos[1]],
                               ExpandRule(rules[tssPos[1]])[tssPos[2]], target_tuple)
    /\ tssPos' = TSSPosFrom(rules, tssPos[1], tssPos[2] + 1)
    /\ pc' = IF tssPos'[1] > Len(rules) THEN "ready" ELSE "tss"
    /\ UNCHANGED <<rng, hasher, rules, linear, cutsplit, hicuts, hypersplit,
                   psort, packet, result, call>>

\* classify(&p) of TSS, the tables met in any order.
TSSClassifyAnyOrder ==
    /\ pc = "ready"
    /\ \E p \in ProbePackets(rules) :
          \E keys \in Orders({t \in DOMAIN tss : TupleKeyNew(p, t) \in DOMAIN tss[t]}) :
             LET best_match == TSSClassifyLoop(tss, keys, 1, p, NoRule)
             IN /\ packet' = p
                /\ result' = [NoResult EXCEPT !["tss"] =
                                 IF best_match = NoRule THEN None ELSE best_match.action]
    /\ pc' = "classified"
    /\ UNCHANGED <<rng, hasher, rules, linear, cutsplit, hicuts,
                   hypersplit, psort, tss, tssPos, call>>

InitOrder ==
    /\ pc = "input"
    /\ rng = 0
    /\ hasher = 0
    /\ Blank

NextOrder == AddOrderRule \/ TSSBuildStart \/ TSSBuildStepAnyOrder \/ TSSClassifyAnyOrder

SpecOrder == InitOrder /\ [][NextOrder]_vars

(***************************************************************************)
(* TSS: the table that build stores an expanded tuple in.                  *)
(***************************************************************************)
\* The expanded part that the next round of build's loop stores.
NextPart == ExpandRule(rules[tssPos[1]])[tssPos[2]]

\* The existing tables that may take a tuple: no longer than it in any
\* field, and at most MAX_MERGE_BITS shorter in all.
MergeCandidates(tables, rule_tuple) ==
    {t \in DOMAIN tables :
        /\ IsSubsetOf(t, rule_tuple)
        /\ BitDifference(t, rule_tuple) <= MAX_MERGE_BITS}

\* The tables that a round of the loop has created or changed.
TouchedTables(before, after) ==
    {t \in DOMAIN after : t \notin DOMAIN before \/ after[t] # before[t]}

\* How many times a rule is held by the bucket of a key in a table.
HeldAt(tables, t, key, rule) ==
    IF t \in DOMAIN tables /\ key \in DOMAIN tables[t]
    THEN Cardinality({i \in 1..Len(tables[t][key]) : tables[t][key][i] = rule})
    ELSE 0

\* One round of the loop, from tables before to tables after, for a part
\* of a rule: the one table touched is a merge candidate of least
\* difference (the part's own tuple, when that is a table), or a new table
\* of the part's tuple when there is no candidate; the rule is added to the
\* bucket of the part's values masked by that table's lengths.
StoredInBestTable(before, after, rule, part) ==
    \E target \in DOMAIN after :
        /\ TouchedTables(before, after) = {target}
        /\ IF MergeCandidates(before, part.tuple) # {}
           THEN /\ target \in MergeCandidates(before, part.tuple)
                /\ \A t \in MergeCandidates(before, part.tuple) :
                      BitDifference(target, part.tuple) <= BitDifference(t, part.tuple)
                /\ part.tuple \in DOMAIN before => target = part.tuple
                /\ DOMAIN after = DOMAIN before
           ELSE /\ target = part.tuple
                /\ target \notin DOMAIN before
                /\ DOMAIN after = DOMAIN before \cup {target}
        /\ LET key == TupleKeyFromValues(part.sip, part.dip, part.sport, part.dport,
                                         part.proto, target)
           IN HeldAt(after, target, key, rule) = HeldAt(before, target, key, rule) + 1

\* Every entry of every bucket is a rule one of whose expanded tuples the
\* table is no longer than in any field and at most MAX_MERGE_BITS shorter
\* than in all, stored under that part's values masked by the table.
EntriesFitTables ==
    \A t \in DOMAIN tss : \A key \in DOMAIN tss[t] : \A i \in 1..Len(tss[t][key]) :
        LET parts == ExpandRule(tss[t][key][i])
        IN \E k \in 1..Len(parts) :
              /\ IsSubsetOf(t, parts[k].tuple)
              /\ BitDifference(t, parts[k].tuple) <= MAX_MERGE_BITS
              /\ key = TupleKeyFromValues(parts[k].sip, parts[k].dip, parts[k].sport,
                                          parts[k].dport, parts[k].proto, t)

Buckets(tables) ==
    UNION {{<<t, key>> : key \in DOMAIN tables[t]} : t \in DOMAIN tables}

RECURSIVE SumOfLengths(_, _)
SumOfLengths(tables, bs) ==
    IF bs = {} THEN 0
    ELSE LET b == CHOOSE x \in bs : TRUE
         IN Len(tables[b[1]][b[2]]) + SumOfLengths(tables, bs \ {b})

\* The number of entries that all the buckets hold.
TotalEntries(tables) == SumOfLengths(tables, Buckets(tables))

\* The number of expanded parts that build's loop has been through when it
\* stands at part j of rule i.
RECURSIVE PartsBefore(_, _, _)
PartsBefore(rs, i, j) ==
    IF rs = <<>> THEN 0
    ELSE IF i > Len(rs) THEN PartsBefore(rs, Len(rs), Len(ExpandRule(rs[Len(rs)])) + 1)
    ELSE IF i = 1 THEN j - 1
    ELSE (j - 1) + PartsBefore(rs, i - 1, Len(ExpandRule(rs[i - 1])) + 1)

\* Ascending by priority, and among equal priorities in the order of
\* insertion, which is the order of the rule list (the id of a rule here is
\* its position in the list).
BucketInOrder(bucket) ==
    \A i, j \in 1..Len(bucket) :
        i < j => \/ bucket[i].priority < bucket[j].priority
                 \/ /\ bucket[i].priority = bucket[j].priority
                    /\ bucket[i].id <= bucket[j].id

\* A sequence without its k-th element.
Without(s, k) == SubSeq(s, 1, k - 1) \o SubSeq(s, k + 1, Len(s))

\* One round of the loop keeps every bucket as it was but one, which is the
\* old one with the rule put in somewhere.
KeepsEntries(before, after, rule) ==
    /\ \A b \in Buckets(before) :
          /\ b \in Buckets(after)
          /\ \/ after[b[1]][b[2]] = before[b[1]][b[2]]
             \/ \E k \in 1..Len(after[b[1]][b[2]]) :
                   /\ after[b[1]][b[2]][k] = rule
                   /\ Without(after[b[1]][b[2]], k) = before[b[1]][b[2]]
    /\ \A b \in Buckets(after) \ Buckets(before) : after[b[1]][b[2]] = <<rule>>
    /\ TotalEntries(after) = TotalEntries(before) + 1

\* C26: after every insertion of TSS's build each bucket is ascending by
\* priority with equal priorities in insertion order, no entry stored
\* before has been removed or overwritten, and the buckets hold as many
\* entries as expanded parts have been processed.
C26_BucketsKeepAll ==
    /\ [](pc \in {"tss", "ready"} =>
            /\ \A b \in Buckets(tss) : BucketInOrder(tss[b[1]][b[2]])
            /\ TotalEntries(tss) = PartsBefore(rules, tssPos[1], tssPos[2]))
    /\ [][pc = "tss" => KeepsEntries(tss, tss', rules[tssPos[1]])]_vars

\* The build has ended with a bucket that holds two rules of one priority,
\* and more parts were processed than there are rules.
C26_Witness ==
    /\ pc = "ready"
    /\ TotalEntries(tss) > Len(rules)
    /\ \E b \in Buckets(tss) : \E i, j \in 1..Len(tss[b[1]][b[2]]) :
          /\ i < j
          /\ tss[b[1]][b[2]][i].priority = tss[b[1]][b[2]][j].priority
          /\ tss[b[1]][b[2]][i].id # tss[b[1]][b[2]][j].id

(***************************************************************************)
(* PartitionSort: the interval tree's order.                               *)
(***************************************************************************)
\* The rules of a subtree, node by node.
RECURSIVE TreeRules(_)
TreeRules(node) ==
    IF node.kind # "Node" THEN <<>>
    ELSE node.rules \o TreeRules(node.left) \o TreeRules(node.right)

\* How many times a sequence holds a value.
Occurrences(s, x) == Cardinality({i \in 1..Len(s) : s[i] = x})

\* The rules at a node contain its centre, those below it to the left end
\* before the centre and those below it to the right start after it.
RECURSIVE TreeInOrder(_, _)
TreeInOrder(node, field_idx) ==
    \/ node.kind = "NoNode"
    \/ /\ node.kind = "Node"
       /\ \A i \in 1..Len(node.rules) :
             /\ TreeGetRange(node.rules[i], field_idx).min <= node.center
             /\ node.center <= TreeGetRange(node.rules[i], field_idx).max
       /\ LET below == TreeRules(node.left)
          IN \A i \in 1..Len(below) : TreeGetRange(below[i], field_idx).max < node.center
       /\ LET below == TreeRules(node.right)
          IN \A i \in 1..Len(below) : TreeGetRange(below[i], field_idx).min > node.center
       /\ TreeInOrder(node.left, field_idx)
       /\ TreeInOrder(node.right, field_idx)

\* Each rule of the list is in one node of the tree, once, and the tree
\* holds nothing else.
EachRuleInOneNode(node, rs) ==
    /\ Len(TreeRules(node)) = Len(rs)
    /\ \A i \in 1..Len(rs) : Occurrences(TreeRules(node), rs[i]) = Occurrences(rs, rs[i])

\* C27: in the interval tree that IntervalTree::build makes of rules of
\* valid ranges, in any of the five dimensions, each rule is stored in
\* exactly one node, a node's rules contain its centre, the rules of its
\* left subtree end before the centre and those of its right subtree start
\* after it.
\* (Stated of the states that build ends in; a build that never returned
\* would leave no tree, and fails the formula.)
C27_TreeOrder ==
    (pc \in {"ready", "panic"} /\ ValidRanges) =>
        \A field_idx \in 0..4 :
            /\ TreeInOrder(IntervalTreeBuild(rules, field_idx).root, field_idx)
            /\ EachRuleInOneNode(IntervalTreeBuild(rules, field_idx).root, rules)

\* The tree that PartitionSort keeps has rules at its root and below it
\* on both sides, and a node below a child of the root.
C27_Witness ==
    /\ pc = "ready"
    /\ ValidRanges
    /\ Len(psort) = 1
    /\ psort[1].root.rules # <<>>
    /\ psort[1].root.left # NoNode
    /\ psort[1].root.right # NoNode
    /\ \E c \in {psort[1].root.left, psort[1].root.right} :
          c.left # NoNode \/ c.right # NoNode

(***************************************************************************)
(* The three trees: what the leaves hold.                                  *)
(***************************************************************************)
\* The node at which classify leaves the loop for a packet: the leaf it
\* scans, or the internal node of HiCuts at which it returns None.
RECURSIVE CutSplitLeaf(_, _)
CutSplitLeaf(node, pkt) ==
    IF node.kind = "Internal"
    THEN IF PacketField(pkt, node.dimension) < node.cut_val
         THEN CutSplitLeaf(node.left, pkt)
         ELSE CutSplitLeaf(node.right, pkt)
    ELSE node

RECURSIVE HiCutsLeaf(_, _)
HiCutsLeaf(node, pkt) ==
    IF node.kind = "Internal"
    THEN LET val == PacketField(pkt, node.dimension)
         IN IF val < node.start THEN node
            ELSE HiCutsLeaf(node.children[ClassifyIndex(node, val) + 1], pkt)
    ELSE node

RECURSIVE HyperSplitLeaf(_, _)
HyperSplitLeaf(node, pkt) ==
    IF node.kind = "Internal"
    THEN IF PacketField(pkt, node.dimension) < node.pivot
         THEN HyperSplitLeaf(node.left, pkt)
         ELSE HyperSplitLeaf(node.right, pkt)
    ELSE node

\* The rule lists of all the leaves of a tree of any of the three kinds.
RECURSIVE LeafLists(_)
LeafLists(node) ==
    IF node.kind # "Internal" THEN {node.rules}
    ELSE IF "children" \in DOMAIN node
         THEN UNION {LeafLists(node.children[i]) : i \in DOMAIN node.children}
    ELSE LeafLists(node.left) \cup LeafLists(node.right)

\* s is t with some of its elements left out.
RECURSIVE IsSubList(_, _)
IsSubList(s, t) ==
    IF s = <<>> THEN TRUE
    ELSE IF t = <<>> THEN FALSE
    ELSE IF Head(s) = Head(t) THEN IsSubList(Tail(s), Tail(t))
    ELSE IsSubList(s, Tail(t))

\* A leaf that holds every rule of the list that matches the packet.
HoldsMatching(node, rs, pkt) ==
    /\ node.kind = "Leaf"
    /\ \A i \in 1..Len(rs) :
          Matches(rs[i], pkt) => \E k \in 1..Len(node.rules) : node.rules[k] = rs[i]

\* C28: in the trees of CutSplit, HiCuts and HyperSplit the rules of every
\* leaf are rules of the input list in the list's order, and the leaf that
\* classify reaches for a packet holds every rule of the list that matches
\* the packet.
C28_LeavesHoldMatches ==
    /\ pc = "ready" =>
          \A tree \in {cutsplit, hicuts, hypersplit} :
             \A leaf \in LeafLists(tree) : IsSubList(leaf, rules)
    /\ pc = "classified" =>
          /\ HoldsMatching(CutSplitLeaf(cutsplit, packet), rules, packet)
          /\ HoldsMatching(HiCutsLeaf(hicuts, packet), rules, packet)
          /\ HoldsMatching(HyperSplitLeaf(hypersplit, packet), rules, packet)

\* A packet that several rules match was classified by three trees that
\* all have internal nodes; the leaf of CutSplit is below the root, shorter
\* than the list, and holds a rule that the root's other child holds too.
C28_Witness ==
    /\ pc = "classified"
    /\ Cardinality(MatchingRules) >= 2
    /\ cutsplit.kind = "Internal"
    /\ hicuts.kind = "Internal"
    /\ hypersplit.kind = "Internal"
    /\ LET leaf == CutSplitLeaf(cutsplit, packet)
           other == IF PacketField(packet, cutsplit.dimension) < cutsplit.cut_val
                    THEN cutsplit.right ELSE cutsplit.left
       IN /\ Len(leaf.rules) < Len(rules)
          /\ \E k \in 1..Len(leaf.rules) :
                /\ Matches(leaf.rules[k], packet)
                /\ \E l \in LeafLists(other) : \E j \in 1..Len(l) : l[j] = leaf.rules[k]

(***************************************************************************)
(* TSS: a rule is found from every packet it matches.                      *)
(***************************************************************************)
\* The tables whose bucket at the packet's masked key holds the rule.
TablesHolding(tables, rule, pkt) ==
    {t \in DOMAIN tables :
        /\ TupleKeyNew(pkt, t) \in DOMAIN tables[t]
        /\ \E i \in 1..Len(tables[t][TupleKeyNew(pkt, t)]) :
              tables[t][TupleKeyNew(pkt, t)][i] = rule}

\* The rules that build's loop is through with.
ProcessedRules == {i \in 1..Len(rules) : i < tssPos[1]}

\* C29: whichever merge targets build chose, for every rule of valid
\* ranges that it has processed and every packet that the rule matches some
\* table holds the rule in the bucket at the packet's key masked by the
\* lengths of that table.
C29_MatchingPacketFindsRule ==
    (pc \in {"tss", "ready"} /\ ValidRanges) =>
        \A i \in ProcessedRules : \A p \in ProbePackets(rules) :
            Matches(rules[i], p) => TablesHolding(tss, rules[i], p) # {}

\* A matching packet finds a rule in a table that is shorter than every
\* expanded tuple of the rule, under a key that is not the packet masked
\* by the tuple of the rule's part.
C29_Witness ==
    /\ pc = "ready"
    /\ ValidRanges
    /\ \E i \in 1..Len(rules) : \E p \in ProbePackets(rules) :
          /\ Matches(rules[i], p)
          /\ TablesHolding(tss, rules[i], p) # {}
          /\ \A t \in TablesHolding(tss, rules[i], p) :
                LET parts == ExpandRule(rules[i])
                IN \A k \in 1..Len(parts) :
                      /\ parts[k].tuple # t
                      /\ TupleKeyNew(p, parts[k].tuple) # TupleKeyNew(p, t)

(***************************************************************************)
(* TSS: the answer does not depend on the order of the tables.             *)
(***************************************************************************)
DistinctPriorities ==
    \A i, j \in 1..Len(rules) : i # j => rules[i].priority # rules[j].priority

\* The matching rule of least priority value, NoRule when nothing matches.
BestMatching(rs, pkt) ==
    LET hits == {i \in 1..Len(rs) : Matches(rs[i], pkt)}
    IN IF hits = {} THEN NoRule
       ELSE rs[CHOOSE i \in hits : \A j \in hits : rs[i].priority <= rs[j].priority]

\* The tables that have a bucket at the packet's key.
ProbedTables(tables, pkt) == {t \in DOMAIN tables : TupleKeyNew(pkt, t) \in DOMAIN tables[t]}

\* C30: when the priorities of the rules are pairwise distinct, whichever
\* way the ties of least difference were resolved while the tables were
\* built, and in whichever order classify meets the tables, its loop ends
\* with the matching rule of least priority value as best_match, and
\* classify answers with that rule's action.
C30_OrderIndependent ==
    /\ (pc = "ready" /\ DistinctPriorities) =>
          \A p \in ProbePackets(rules) : \A keys \in Orders(ProbedTables(tss, p)) :
              TSSClassifyLoop(tss, keys, 1, p, NoRule) = BestMatching(rules, p)
    /\ (pc = "classified" /\ DistinctPriorities) => result["tss"] = ExpectedAction

\* Rules of distinct priorities, the last of which was stored in one of two
\* tables of the same least difference; the packet classified is matched
\* by several rules, found in several tables.
C30_Witness ==
    /\ pc = "classified"
    /\ DistinctPriorities
    /\ Cardinality(MatchingRules) >= 2
    /\ Cardinality({t \in ProbedTables(tss, packet) :
                      \E i \in 1..Len(tss[t][TupleKeyNew(packet, t)]) :
                          Matches(tss[t][TupleKeyNew(packet, t)][i], packet)}) >= 2
    /\ LET last == rules[Len(rules)]
           parts == ExpandRule(last)
       IN /\ Len(parts) = 1
          /\ \E t, u \in DOMAIN tss :
                /\ t # u
                /\ t \in TablesHolding(tss, last, packet)
                /\ IsSubsetOf(u, parts[1].tuple)
                /\ BitDifference(u, parts[1].tuple) = BitDifference(t, parts[1].tuple)
                /\ BitDifference(t, parts[1].tuple) > 0

=============================================================================
